---- MODULE Spec2Model ----
(***************************************************************************)
(* A model of the archetype-based ECS world of jrdnrs/ecs-rs: the entity   *)
(* directory (a generational store of entity records), the archetype table *)
(* with its graph edges and component columns, and the World facade that   *)
(* drives them.  Rows are 0-based as in the source; sequences are 1-based, *)
(* so row r of a column is element r + 1.                                  *)
(***************************************************************************)
EXTENDS Integers, Sequences, FiniteSets, TLC

\* ------------------------------------------------------------------ bounds
MaxSlots == 2      \* slots the entity store may allocate
MaxGen == 1        \* highest generation a slot is handed out with
NumComps == 2      \* registered component types (ids 0 .. NumComps - 1)
NumVals == 2       \* distinct component values
MaxTick == 1       \* World::update is not taken past this tick
MaxBundle == 2     \* parameters of a query
MaxListed == 4     \* sync is not taken once a match list could outgrow this
MaxSchedules == 2  \* schedules built for one world
MaxSystems == 2    \* systems in one schedule
MaxPushed == 2     \* commands the systems queue in one update
MaxUpdates == 1    \* updates of a world that holds schedules
MaxHeld == 3       \* systems built for one world, over all its schedules
NumTypes == 5      \* Rust types a component manager is asked to register

ComponentIDs == 0 .. (NumComps - 1)
Values == 1 .. NumVals
ArchetypeIDs == SUBSET ComponentIDs
\* An Entity is a 32-bit key that packs a slot index and a generation.
Entities == [idx : 1 .. MaxSlots, gen : 0 .. MaxGen]

VARIABLES
    entity_manager,     \* EntityManager.records: slot index -> slot
    archetype_manager,  \* ArchetypeManager: archetype_table, new_archetypes_queue
    tick,               \* World.tick
    fault,              \* "none", or "undefined" / "panic" once an operation has left defined behaviour or panicked
    system_manager,     \* World.system_manager: the schedules added to the world
    pending,            \* schedules built (their queries too) and not yet added to the world
    issued,             \* history: the entities create_entity has returned
    retired,            \* history: the issued entities delete_entity has been called on
    query,              \* the Query under observation, NoQuery until one is built
    filter_bundle,      \* history: the bundle the query's builder was filtered by
    examined,           \* history: the archetypes the query's filter was tested on
    created,            \* history: the archetypes created since the queue was last cleared
    component_manager,  \* World.component_manager: ids and metadata of the registered types
    registered          \* history: the distinct types in the order they were first registered

vars ==
    <<entity_manager, archetype_manager, tick, fault, system_manager, pending,
      issued, retired, query, filter_bundle, examined, created,
      component_manager, registered>>

\* The World as one value, so that operations are functions World -> World.
World ==
    [entity_manager |-> entity_manager,
     archetype_manager |-> archetype_manager,
     tick |-> tick,
     fault |-> fault,
     system_manager |-> system_manager]

\* The one element of a singleton.  An intermediate result is bound as the
\* element of a singleton, { f(r) : r \in {e} }, so that it is computed once.
The(S) == CHOOSE x \in S : TRUE

\* ------------------------------------------------------------- sequences
\* Vec::swap_remove(index): the last element takes the place of the removed one.
SwapRemove(s, index) ==
    LET n == Len(s)
    IN [i \in 1 .. (n - 1) |-> IF i = index + 1 THEN s[n] ELSE s[i]]

\* A map with no key yet.
EmptyIds == [t \in {} |-> 0]

\* --------------------------------------------------- generational store
\* EntityRecord::default()
DefaultRecord == [archetype_id |-> {}, archetype_row |-> 0]

VacantSlot(gen) == [live |-> FALSE, gen |-> gen, record |-> DefaultRecord]

\* Store::contains_key: the slot exists, is occupied, and its generation is the key's.
Store_contains_key(records, key) ==
    /\ key.idx \in 1 .. Len(records)
    /\ records[key.idx].live
    /\ records[key.idx].gen = key.gen

\* The slots Store::push may fill: a vacant slot, or a new one at the end.
Store_free_slots(records) ==
    {i \in 1 .. Len(records) : ~records[i].live /\ records[i].gen <= MaxGen}
        \cup (IF Len(records) < MaxSlots THEN {Len(records) + 1} ELSE {})

\* Store::push(value) into slot idx; the key returned carries the slot's generation.
Store_push(records, idx, value) ==
    IF idx = Len(records) + 1
    THEN Append(records, [live |-> TRUE, gen |-> 0, record |-> value])
    ELSE [records EXCEPT ![idx] = [live |-> TRUE, gen |-> @.gen, record |-> value]]

Store_key(records, idx) == [idx |-> idx, gen |-> records[idx].gen]

\* Store::remove(key): frees the slot and bumps its generation.
Store_remove(records, key) ==
    IF Store_contains_key(records, key)
    THEN [records EXCEPT ![key.idx] = VacantSlot(@.gen + 1)]
    ELSE records

\* ------------------------------------------------------- EntityManager
EntityManager_alive(records, entity) == Store_contains_key(records, entity)

EntityManager_delete(records, entity) == Store_remove(records, entity)

\* The unchecked record access: by slot index alone, whatever the generation.
get_record(records, entity) == records[entity.idx].record

\* Whether the unchecked access reads an occupied slot (otherwise it is undefined).
RecordReadable(records, entity) ==
    entity.idx \in 1 .. Len(records) /\ records[entity.idx].live

SetRow(records, entity, row) ==
    [records EXCEPT ![entity.idx].record.archetype_row = row]

\* ----------------------------------------------------- ComponentManager
\* The TypeId of each Rust type that may be registered as a component.
TypeIds == 1 .. NumTypes

\* ComponentMetaData::new::<T>(): type id, layout and drop are the type's.
ComponentMetaData_new(type_id) == [type_id |-> type_id]

\* ComponentManager::new
ComponentManager_new == [ids |-> EmptyIds, metadata |-> <<>>]

\* Mutant of register: no early return for a type that is registered.
ComponentManager_register_again(cm, type_id) ==
    [ids |-> [t \in DOMAIN cm.ids \cup {type_id} |->
                 IF t = type_id THEN Cardinality(DOMAIN cm.ids) ELSE cm.ids[t]],
     metadata |-> Append(cm.metadata, ComponentMetaData_new(type_id))]

\* ComponentManager::register: a registered type returns early; a new one
\* gets ids.len() as its id and its metadata is pushed.
ComponentManager_register(cm, type_id) ==
    IF type_id \in DOMAIN cm.ids THEN cm
    ELSE [ids |-> [t \in DOMAIN cm.ids \cup {type_id} |->
                      IF t = type_id THEN Cardinality(DOMAIN cm.ids) ELSE cm.ids[t]],
          metadata |-> Append(cm.metadata, ComponentMetaData_new(type_id))]

\* register for each type of a sequence, in order.
RECURSIVE ComponentManager_register_all(_, _)
ComponentManager_register_all(cm, type_ids) ==
    IF type_ids = <<>> THEN cm
    ELSE ComponentManager_register_all(
             ComponentManager_register(cm, Head(type_ids)), Tail(type_ids))

\* ComponentManager::get_id of a registered type (it panics for any other).
ComponentManager_get_id(cm, type_id) == cm.ids[type_id]

\* ---------------------------------------------------- ComponentStorage
NoTracker == [enabled |-> FALSE, info |-> <<>>, last_read |-> 0, last_write |-> 0]

\* ComponentStorage::from_other / from_metadata: an empty, untracked column.
ComponentStorage_from_other(comp_id) ==
    [id |-> comp_id, components |-> <<>>, tracker |-> NoTracker]

\* ComponentStorage::push: the tracker entry is pushed with tick 0.
ComponentStorage_push(storage, component) ==
    [storage EXCEPT
        !.components = Append(@, component),
        !.tracker = IF @.enabled
                    THEN [@ EXCEPT !.info = Append(@, 0), !.last_write = 0]
                    ELSE @]

\* Mutant of delete_unchecked: the tracker drops its last entry, whatever the row.
ComponentStorage_delete_tracker_pops(storage, index) ==
    [storage EXCEPT
        !.components = SwapRemove(@, index),
        !.tracker = IF @.enabled
                    THEN [@ EXCEPT !.info = SubSeq(@, 1, Len(@) - 1)]
                    ELSE @]

\* ComponentStorage::delete / delete_unchecked: swap-remove and drop.
ComponentStorage_delete(storage, index) ==
    [storage EXCEPT
        !.components = SwapRemove(@, index),
        !.tracker = IF @.enabled THEN [@ EXCEPT !.info = SwapRemove(@, index)] ELSE @]

\* Mutant of the dispose in delete_unchecked: the last element is disposed.
ComponentStorage_delete_disposed_last(storage, index) ==
    storage.components[Len(storage.components)]

\* The element delete_unchecked hands to dispose: the one swap_remove_unchecked
\* took from row index.
ComponentStorage_delete_disposed(storage, index) == storage.components[index + 1]

\* Mutant of move_unchecked: the last row leaves src instead of row src_index.
ComponentStorage_move_unchecked_last(src, src_index, dst) ==
    [src |-> ComponentStorage_delete(src, Len(src.components) - 1),
     dst |-> ComponentStorage_push(dst, src.components[Len(src.components)])]

\* ComponentStorage::move_unchecked: swap-remove from src, push the value onto dst.
ComponentStorage_move_unchecked(src, src_index, dst) ==
    [src |-> ComponentStorage_delete(src, src_index),
     dst |-> ComponentStorage_push(dst, src.components[src_index + 1])]

\* Mutant of enable_tracking: the tracker starts empty (ChangeTracking::new)
\* whatever the column holds.
ComponentStorage_enable_tracking_empty(storage) ==
    IF storage.tracker.enabled THEN storage
    ELSE [storage EXCEPT !.tracker =
            [enabled |-> TRUE, info |-> <<>>, last_read |-> 0, last_write |-> 0]]

\* ComponentStorage::enable_tracking
ComponentStorage_enable_tracking(storage) ==
    IF storage.tracker.enabled THEN storage
    ELSE [storage EXCEPT !.tracker =
            [enabled |-> TRUE,
             info |-> [i \in 1 .. Len(storage.components) |-> 0],
             last_read |-> 0,
             last_write |-> 0]]

\* ------------------------------------------------------------ Archetype
EmptyMap == [x \in {} |-> {}]

\* Archetype::new
Archetype_new(id) ==
    [id |-> id, edges |-> EmptyMap, components |-> EmptyMap, entities |-> <<>>]

\* Archetype::comp_ids: the keys of the column map.
Archetype_comp_ids(arche) == DOMAIN arche.components

\* Archetype::has_component
Archetype_has_component(arche, comp_id) == comp_id \in arche.id

\* The debug assertion of Archetype::get_storage / get_mut_storage:
\* self.id.test(comp_id), "Component ID does not match archetype".
Archetype_get_storage_asserted(arche, comp_id) == comp_id \in arche.id

\* Archetype::push_entity
Archetype_push_entity(arche, entity, records) ==
    [arche |-> [arche EXCEPT !.entities = Append(@, entity)],
     records |-> [records EXCEPT ![entity.idx].record =
                     [archetype_id |-> arche.id,
                      archetype_row |-> Len(arche.entities)]]]

\* Mutant of delete_entity: the record of the last entity is left as it was.
Archetype_delete_entity_keeps_record(arche, entity, records) ==
    [arche |-> [arche EXCEPT !.entities =
                   SwapRemove(@, get_record(records, entity).archetype_row)],
     records |-> records]

\* Archetype::delete_entity: the last entity's record takes the row, then swap-remove.
Archetype_delete_entity(arche, entity, records) ==
    LET entity_row == get_record(records, entity).archetype_row
        last == arche.entities[Len(arche.entities)]
    IN [arche |-> [arche EXCEPT !.entities = SwapRemove(@, entity_row)],
        records |-> SetRow(records, last, entity_row)]

\* Archetype::push_component
Archetype_push_component(arche, comp_id, component) ==
    [arche EXCEPT !.components[comp_id] = ComponentStorage_push(@, component)]

\* Archetype::delete_component
Archetype_delete_component(arche, comp_id, row) ==
    [arche EXCEPT !.components[comp_id] = ComponentStorage_delete(@, row)]

\* Archetype::transfer_component, for every id of comp_ids, then
\* delete_entity on the source and push_entity on the destination.
Archetype_transfer_entity(src, entity, comp_ids, dst, records) ==
    LET row == get_record(records, entity).archetype_row
        moved(c) == ComponentStorage_move_unchecked(src.components[c], row, dst.components[c])
        src1 == [src EXCEPT !.components =
                    [c \in DOMAIN @ |-> IF c \in comp_ids THEN moved(c).src ELSE @[c]]]
        dst1 == [dst EXCEPT !.components =
                    [c \in DOMAIN @ |-> IF c \in comp_ids THEN moved(c).dst ELSE @[c]]]
        del == Archetype_delete_entity(src1, entity, records)
        psh == Archetype_push_entity(dst1, entity, del.records)
    IN [src |-> del.arche, dst |-> psh.arche, records |-> psh.records]

\* ----------------------------------------------------- ArchetypeManager
\* The root archetype's id is the empty bitset.
root_archetype == {}

\* ArchetypeManager::new
ArchetypeManager_new ==
    [archetype_table |-> (root_archetype :> Archetype_new(root_archetype)),
     new_archetypes_queue |-> <<>>]

\* ArchetypeManager::insert_graph_edge: the edge is stored at both ends.
ArchetypeManager_insert_graph_edge(am, src_arche_id, dst_arche_id, edge_comp_id) ==
    LET t1 == [am.archetype_table EXCEPT
                  ![src_arche_id].edges = (edge_comp_id :> dst_arche_id) @@ @]
        t2 == [t1 EXCEPT
                  ![dst_arche_id].edges = (edge_comp_id :> src_arche_id) @@ @]
    IN [am EXCEPT !.archetype_table = t2]

\* The archetype get_extended_archetype / get_reduced_archetype creates: the
\* source's columns (except `without`), plus the columns of `extra`, all empty.
CreatedArchetype(am, src_arche_id, target_arche_id, extra, without) ==
    LET src == am.archetype_table[src_arche_id]
        keys == (Archetype_comp_ids(src) \ without) \cup extra
    IN [Archetype_new(target_arche_id) EXCEPT
           !.components = [c \in keys |-> ComponentStorage_from_other(c)]]

\* Mutant of the three cases below: a target found in the table without an
\* edge is queued as well.
ResolveArchetype_queues_found(am, src_arche_id, comp_id, target_arche_id, extra, without) ==
    LET src == am.archetype_table[src_arche_id]
        am1 == [archetype_table |->
                    IF target_arche_id \in DOMAIN am.archetype_table
                    THEN am.archetype_table
                    ELSE (target_arche_id :>
                              [Archetype_new(target_arche_id) EXCEPT !.components =
                                  [c \in (DOMAIN src.components \ without) \cup extra |->
                                      ComponentStorage_from_other(c)]])
                             @@ am.archetype_table,
                new_archetypes_queue |-> Append(am.new_archetypes_queue, target_arche_id)]
    IN IF comp_id \in DOMAIN src.edges
       THEN [am |-> am, id |-> src.edges[comp_id]]
       ELSE [am |-> ArchetypeManager_insert_graph_edge(
                        am1, src_arche_id, target_arche_id, comp_id),
             id |-> target_arche_id]

\* The three cases shared by get_extended_archetype and get_reduced_archetype:
\* an edge exists; the target exists without an edge; the target is created
\* (queued in new_archetypes_queue, inserted in the table, then linked).
ResolveArchetype(am, src_arche_id, comp_id, target_arche_id, extra, without) ==
    LET src == am.archetype_table[src_arche_id]
    IN IF comp_id \in DOMAIN src.edges
       THEN [am |-> am, id |-> src.edges[comp_id]]
       ELSE IF target_arche_id \in DOMAIN am.archetype_table
       THEN [am |-> ArchetypeManager_insert_graph_edge(
                        am, src_arche_id, target_arche_id, comp_id),
             id |-> target_arche_id]
       ELSE LET dst_arche ==
                    CreatedArchetype(am, src_arche_id, target_arche_id, extra, without)
                am1 == [archetype_table |->
                            (target_arche_id :> dst_arche) @@ am.archetype_table,
                        new_archetypes_queue |->
                            Append(am.new_archetypes_queue, target_arche_id)]
            IN [am |-> ArchetypeManager_insert_graph_edge(
                           am1, src_arche_id, target_arche_id, comp_id),
                id |-> target_arche_id]

\* ArchetypeManager::get_extended_archetype
ArchetypeManager_get_extended_archetype(am, src_arche_id, new_comp_id) ==
    ResolveArchetype(am, src_arche_id, new_comp_id,
                     src_arche_id \cup {new_comp_id}, {new_comp_id}, {})

\* Mutant of get_reduced_archetype: the created archetype inherits every
\* column of the source, the removed component's too.
ArchetypeManager_get_reduced_archetype_keeps_column(am, src_arche_id, old_comp_id) ==
    ResolveArchetype(am, src_arche_id, old_comp_id,
                     src_arche_id \ {old_comp_id}, {}, {})

\* ArchetypeManager::get_reduced_archetype
ArchetypeManager_get_reduced_archetype(am, src_arche_id, old_comp_id) ==
    ResolveArchetype(am, src_arche_id, old_comp_id,
                     src_arche_id \ {old_comp_id}, {}, {old_comp_id})

\* Mutant of delete_entity: an archetype left without entities is dropped from
\* the table.
ArchetypeManager_delete_entity_drops_empty(am, entity, records) ==
    LET entity_record == get_record(records, entity)
        arche == am.archetype_table[entity_record.archetype_id]
        arche1 == [arche EXCEPT !.components =
                      [c \in DOMAIN @ |->
                          ComponentStorage_delete(@[c], entity_record.archetype_row)]]
        del == Archetype_delete_entity(arche1, entity, records)
        kept == IF del.arche.entities = <<>> /\ arche.id # {}
                THEN DOMAIN am.archetype_table \ {arche.id}
                ELSE DOMAIN am.archetype_table
    IN [am |-> [am EXCEPT !.archetype_table =
                   [id \in kept |-> IF id = arche.id THEN del.arche ELSE @[id]]],
        records |-> del.records]

\* ArchetypeManager::delete_entity: every column drops the row, then the
\* archetype's entity list does.
ArchetypeManager_delete_entity(am, entity, records) ==
    LET entity_record == get_record(records, entity)
        arche == am.archetype_table[entity_record.archetype_id]
        arche1 == [arche EXCEPT !.components =
                      [c \in DOMAIN @ |->
                          ComponentStorage_delete(@[c], entity_record.archetype_row)]]
        del == Archetype_delete_entity(arche1, entity, records)
    IN [am |-> [am EXCEPT !.archetype_table[entity_record.archetype_id] = del.arche],
        records |-> del.records]

\* What ArchetypeManager::delete_entity disposes: storage.delete(row) on every
\* column of the entity's archetype.
ArchetypeManager_delete_entity_disposed(am, entity, records) ==
    LET entity_record == get_record(records, entity)
        arche == am.archetype_table[entity_record.archetype_id]
    IN {[comp |-> c,
         value |-> ComponentStorage_delete_disposed(
                       arche.components[c], entity_record.archetype_row)] :
            c \in DOMAIN arche.components}

\* What ArchetypeManager::remove_component disposes: delete_component of the
\* removed component; transfer_entity moves the rest and disposes nothing.
ArchetypeManager_remove_component_disposed(am, entity, comp_id, records) ==
    LET entity_record == get_record(records, entity)
        arche == am.archetype_table[entity_record.archetype_id]
    IN {[comp |-> comp_id,
         value |-> ComponentStorage_delete_disposed(
                       arche.components[comp_id], entity_record.archetype_row)]}

\* The two archetypes get_two_mut_unchecked hands out, after the operation on them.
PutTwo(am, src, dst) ==
    [am EXCEPT !.archetype_table =
        [id \in DOMAIN @ |-> IF id = src.id THEN src
                             ELSE IF id = dst.id THEN dst ELSE @[id]]]

\* ArchetypeManager::add_component.  Its caller must pass a live entity; the
\* record is read by slot index alone.  The behaviour is undefined when the
\* slot is vacant or out of range, when source and destination are the same
\* archetype (get_two_mut_unchecked), and when the destination has no column
\* for comp_id (get_mut_storage).
ArchetypeManager_add_component(am, component, entity, comp_id, records) ==
    IF ~RecordReadable(records, entity)
    THEN [am |-> am, records |-> records, fault |-> "undefined"]
    ELSE
    LET src_arche_id == get_record(records, entity).archetype_id
        ext == ArchetypeManager_get_extended_archetype(am, src_arche_id, comp_id)
        dst_arche_id == ext.id
        src_arche == ext.am.archetype_table[src_arche_id]
        dst_arche == ext.am.archetype_table[dst_arche_id]
    IN IF dst_arche_id = src_arche_id \/ comp_id \notin Archetype_comp_ids(dst_arche)
       THEN [am |-> ext.am, records |-> records, fault |-> "undefined"]
       ELSE LET dst1 == Archetype_push_component(dst_arche, comp_id, component)
                tr == Archetype_transfer_entity(
                          src_arche, entity, Archetype_comp_ids(src_arche), dst1, records)
            IN [am |-> PutTwo(ext.am, tr.src, tr.dst),
                records |-> tr.records,
                fault |-> "none"]

\* Mutant of remove_component: the removed component's row is left in its column.
ArchetypeManager_remove_component_keeps_row(am, entity, comp_id, records) ==
    LET entity_record == get_record(records, entity)
        src_arche_id == entity_record.archetype_id
        red == ArchetypeManager_get_reduced_archetype(am, src_arche_id, comp_id)
        src_arche == red.am.archetype_table[src_arche_id]
        dst_arche == red.am.archetype_table[red.id]
        tr == Archetype_transfer_entity(
                  src_arche, entity, Archetype_comp_ids(dst_arche), dst_arche, records)
    IN [am |-> PutTwo(red.am, tr.src, tr.dst), records |-> tr.records, fault |-> "none"]

\* ArchetypeManager::remove_component: drop the removed component's row in the
\* source, then transfer the entity with the destination's component ids.
ArchetypeManager_remove_component(am, entity, comp_id, records) ==
    LET entity_record == get_record(records, entity)
        src_arche_id == entity_record.archetype_id
        red == ArchetypeManager_get_reduced_archetype(am, src_arche_id, comp_id)
        dst_arche_id == red.id
        src_arche == red.am.archetype_table[src_arche_id]
        dst_arche == red.am.archetype_table[dst_arche_id]
        src1 == Archetype_delete_component(src_arche, comp_id, entity_record.archetype_row)
        tr == Archetype_transfer_entity(
                  src1, entity, Archetype_comp_ids(dst_arche), dst_arche, records)
    IN [am |-> PutTwo(red.am, tr.src, tr.dst), records |-> tr.records, fault |-> "none"]

\* ----------------------------------------------------------------- World
\* World::new
World_new ==
    [entity_manager |-> <<>>,
     archetype_manager |-> ArchetypeManager_new,
     tick |-> 0,
     fault |-> "none",
     system_manager |-> <<>>]

\* World::is_entity_alive
World_is_entity_alive(w, entity) == EntityManager_alive(w.entity_manager, entity)

\* Mutant of create_entity: the entity is not pushed onto the root archetype.
World_create_entity_unplaced(w, idx) ==
    [w EXCEPT !.entity_manager = Store_push(w.entity_manager, idx, DefaultRecord)]

\* World::create_entity, with the slot the store fills: EntityManager::create
\* pushes a default record, then the root archetype's push_entity sets it.
World_create_entity(w, idx) ==
    LET records == Store_push(w.entity_manager, idx, DefaultRecord)
        entity == Store_key(records, idx)
        root == w.archetype_manager.archetype_table[root_archetype]
        psh == Archetype_push_entity(root, entity, records)
    IN [w EXCEPT
           !.entity_manager = psh.records,
           !.archetype_manager.archetype_table[root_archetype] = psh.arche]

\* Mutant of delete_entity: the guard looks at the slot, not at the generation.
World_delete_entity_by_slot(w, entity) ==
    IF ~RecordReadable(w.entity_manager, entity) THEN w
    ELSE LET del == ArchetypeManager_delete_entity(
                        w.archetype_manager, entity, w.entity_manager)
         IN [w EXCEPT
                !.archetype_manager = del.am,
                !.entity_manager = EntityManager_delete(del.records, entity)]

\* Mutant of delete_entity: the directory slot is not released.
World_delete_entity_keeps_slot(w, entity) ==
    IF ~EntityManager_alive(w.entity_manager, entity) THEN w
    ELSE LET del == ArchetypeManager_delete_entity(
                        w.archetype_manager, entity, w.entity_manager)
         IN [w EXCEPT !.archetype_manager = del.am, !.entity_manager = del.records]

\* World::delete_entity
World_delete_entity(w, entity) ==
    IF ~EntityManager_alive(w.entity_manager, entity) THEN w
    ELSE LET del == ArchetypeManager_delete_entity(
                        w.archetype_manager, entity, w.entity_manager)
         IN [w EXCEPT
                !.archetype_manager = del.am,
                !.entity_manager = EntityManager_delete(del.records, entity)]

\* World::has_component: false for an entity that is not alive.
World_has_component(w, entity, comp_id) ==
    IF ~EntityManager_alive(w.entity_manager, entity) THEN FALSE
    ELSE LET entity_record == get_record(w.entity_manager, entity)
             archetype == w.archetype_manager.archetype_table[entity_record.archetype_id]
         IN comp_id \in archetype.id

\* Mutant of add_component: a component the entity already has is overwritten.
World_add_component_overwrites(w, entity, comp_id, component) ==
    IF World_has_component(w, entity, comp_id)
    THEN [w EXCEPT !.archetype_manager.archetype_table[
                        get_record(w.entity_manager, entity).archetype_id]
                     .components[comp_id]
                     .components[get_record(w.entity_manager, entity).archetype_row + 1] =
                         component]
    ELSE LET r == ArchetypeManager_add_component(
                      w.archetype_manager, component, entity, comp_id, w.entity_manager)
         IN [w EXCEPT
                !.archetype_manager = r.am,
                !.entity_manager = r.records,
                !.fault = r.fault]

\* World::add_component: returns early only when has_component is true.
World_add_component(w, entity, comp_id, component) ==
    IF World_has_component(w, entity, comp_id) THEN w
    ELSE LET r == ArchetypeManager_add_component(
                      w.archetype_manager, component, entity, comp_id, w.entity_manager)
         IN [w EXCEPT
                !.archetype_manager = r.am,
                !.entity_manager = r.records,
                !.fault = r.fault]

\* Mutant of remove_component: the guard looks at the slot, not at the generation.
World_remove_component_by_slot(w, entity, comp_id) ==
    IF ~(/\ RecordReadable(w.entity_manager, entity)
         /\ comp_id \in get_record(w.entity_manager, entity).archetype_id)
    THEN w
    ELSE LET r == ArchetypeManager_remove_component(
                      w.archetype_manager, entity, comp_id, w.entity_manager)
         IN [w EXCEPT
                !.archetype_manager = r.am,
                !.entity_manager = r.records,
                !.fault = r.fault]

\* World::remove_component
World_remove_component(w, entity, comp_id) ==
    IF ~World_has_component(w, entity, comp_id) THEN w
    ELSE LET r == ArchetypeManager_remove_component(
                      w.archetype_manager, entity, comp_id, w.entity_manager)
         IN [w EXCEPT
                !.archetype_manager = r.am,
                !.entity_manager = r.records,
                !.fault = r.fault]

\* World::get_component: None for a dead entity or a missing component.
None == 0

World_get_component(w, entity, comp_id) ==
    IF ~EntityManager_alive(w.entity_manager, entity) THEN None
    ELSE LET entity_record == get_record(w.entity_manager, entity)
             arche == w.archetype_manager.archetype_table[entity_record.archetype_id]
         IN IF ~Archetype_has_component(arche, comp_id) THEN None
            ELSE arche.components[comp_id].components[entity_record.archetype_row + 1]

\* ------------------------------------------------------- query / filter
Range(s) == {s[i] : i \in DOMAIN s}

\* The parameter kinds a bundle is made of: &T, &mut T, Option<&T>,
\* Option<&mut T>, Tracked<&T>, Tracked<&mut T>, Not<T>, And<T> and Entity.
ComponentKinds ==
    {"read", "write", "opt_read", "opt_write",
     "tracked_read", "tracked_write", "not", "and"}

\* Entity::parameter_ids returns usize::MAX, an id no component has.
Entity_parameter_id == NumComps

Specifiers ==
    [kind : ComponentKinds, comp : ComponentIDs]
        \cup {[kind |-> "entity", comp |-> Entity_parameter_id]}

\* Tuples of specifiers; the bundle handed to filter::<CFilter>() is empty
\* (filter not called) or one And<T> / Not<T>.  A query has at most MaxBundle
\* parameters in all.
Bundles == UNION {[1 .. n -> Specifiers] : n \in 1 .. MaxBundle}
FilterBundles ==
    {<<>>} \cup {<<[kind |-> k, comp |-> c]>> : k \in {"and", "not"}, c \in ComponentIDs}

FilterBuilder_new == [and |-> <<>>, not |-> <<>>, track |-> <<>>]
FilterBuilder_and(filter, component) == [filter EXCEPT !.and = Append(@, component)]
FilterBuilder_not(filter, component) == [filter EXCEPT !.not = Append(@, component)]
FilterBuilder_track(filter, component) == [filter EXCEPT !.track = Append(@, component)]

\* Mutant of build_filter: an Option parameter is required like a plain one.
Specifier_build_filter_opt_required(filter, p) ==
    CASE p.kind \in {"read", "write", "and", "opt_read", "opt_write"} ->
             FilterBuilder_and(filter, p.comp)
      [] p.kind \in {"tracked_read", "tracked_write"} ->
             FilterBuilder_track(FilterBuilder_and(filter, p.comp), p.comp)
      [] p.kind = "not" -> FilterBuilder_not(filter, p.comp)
      [] OTHER -> filter

\* ComponentBundle::build_filter of each single parameter.
Specifier_build_filter(filter, p) ==
    CASE p.kind \in {"read", "write", "and"} -> FilterBuilder_and(filter, p.comp)
      [] p.kind \in {"tracked_read", "tracked_write"} ->
             FilterBuilder_track(FilterBuilder_and(filter, p.comp), p.comp)
      [] p.kind = "not" -> FilterBuilder_not(filter, p.comp)
      [] OTHER -> filter

\* ComponentBundle::build_filter of a tuple: its parameters in order.
RECURSIVE ComponentBundle_build_filter(_, _)
ComponentBundle_build_filter(filter, bundle) ==
    IF bundle = <<>> THEN filter
    ELSE ComponentBundle_build_filter(
             Specifier_build_filter(filter, Head(bundle)), Tail(bundle))

\* FilterBuilder::build: the and / not lists become bitsets.
FilterBuilder_build(filter) ==
    [and |-> filter.and,
     not |-> filter.not,
     track |-> filter.track,
     and_bitset |-> Range(filter.and),
     not_bitset |-> Range(filter.not)]

\* Mutant of matches_archetype: the test alone, no tracking is enabled.
Filter_matches_archetype_untracked(filter, archetype) ==
    [matches |-> /\ filter.and_bitset \subseteq archetype.id
                 /\ filter.not_bitset \cap archetype.id = {},
     archetype |-> archetype]

\* Filter::matches_archetype: a matching archetype gets tracking enabled on
\* the columns of the filter's track list.
Filter_matches_archetype(filter, archetype) ==
    LET matches ==
            /\ filter.and_bitset \subseteq archetype.id
            /\ filter.not_bitset \cap archetype.id = {}
    IN [matches |-> matches,
        archetype |->
            IF ~matches THEN archetype
            ELSE [archetype EXCEPT !.components =
                     [c \in DOMAIN @ |->
                         IF c \in Range(filter.track)
                         THEN ComponentStorage_enable_tracking(@[c])
                         ELSE @[c]]]]

\* The orders in which the archetype table (a HashMap) may be iterated.
IterationOrders(table) ==
    {order \in [1 .. Cardinality(DOMAIN table) -> DOMAIN table] :
        \A id \in DOMAIN table : \E i \in DOMAIN order : order[i] = id}

\* Filter::matching_archetypes
Filter_matching_archetypes(filter, am, order) ==
    LET test(id) == Filter_matches_archetype(filter, am.archetype_table[id])
    IN [matching |-> SelectSeq(order, LAMBDA id : test(id).matches),
        am |-> [am EXCEPT !.archetype_table =
                   [id \in DOMAIN @ |-> test(id).archetype]]]

\* QueryBuilder::filter
QueryBuilder_filter(filter_builder, CFilter) ==
    ComponentBundle_build_filter(filter_builder, CFilter)

\* Query::new on the builder left by world.query::<C>().filter::<CFilter>().
Query_new(am, filter_builder, C, order) ==
    LET filter == FilterBuilder_build(ComponentBundle_build_filter(filter_builder, C))
        m == Filter_matching_archetypes(filter, am, order)
    IN [query |-> [C |-> C, archetype_ids |-> m.matching, filter |-> filter],
        am |-> m.am]

NoQuery == [C |-> <<>>, archetype_ids |-> <<>>, filter |-> FilterBuilder_build(FilterBuilder_new)]

\* Query::update_archetype_ids: test the queued archetypes in queue order.
RECURSIVE Query_update_archetype_ids(_, _, _)
Query_update_archetype_ids(q, am, queue) ==
    IF queue = <<>> THEN [query |-> q, am |-> am]
    ELSE LET arche_id == Head(queue)
             t == Filter_matches_archetype(q.filter, am.archetype_table[arche_id])
         IN Query_update_archetype_ids(
                IF t.matches
                THEN [q EXCEPT !.archetype_ids = Append(@, arche_id)]
                ELSE q,
                [am EXCEPT !.archetype_table[arche_id] = t.archetype],
                Tail(queue))

\* Query::update_storage_trackers: last_read becomes the tick on every tracked
\* column of every listed archetype; the tracker is unwrapped unchecked.
Query_update_storage_trackers(q, am, now) ==
    LET listed == Range(q.archetype_ids)
        tracked == Range(q.filter.track)
        defined ==
            \A id \in listed, c \in tracked :
                /\ c \in DOMAIN am.archetype_table[id].components
                /\ am.archetype_table[id].components[c].tracker.enabled
    IN [am |->
            IF ~defined THEN am
            ELSE [am EXCEPT !.archetype_table =
                     [id \in DOMAIN @ |->
                         IF id \notin listed THEN @[id]
                         ELSE [@[id] EXCEPT !.components =
                                  [c \in DOMAIN @ |->
                                      IF c \in tracked
                                      THEN [@[c] EXCEPT !.tracker.last_read = now]
                                      ELSE @[c]]]]],
        fault |-> IF defined THEN "none" ELSE "undefined"]

\* Mutant of Query::sync: last_read is set before the queued archetypes are
\* taken into the list.
Query_sync_trackers_first(q, w) ==
    LET t == Query_update_storage_trackers(q, w.archetype_manager, w.tick)
        u == Query_update_archetype_ids(q, t.am, w.archetype_manager.new_archetypes_queue)
    IN [query |-> u.query,
        world |-> [w EXCEPT !.archetype_manager = u.am,
                            !.fault = IF @ # "none" THEN @ ELSE t.fault]]

\* Query::sync
Query_sync(q, w) ==
    LET u == Query_update_archetype_ids(
                 q, w.archetype_manager, w.archetype_manager.new_archetypes_queue)
        t == Query_update_storage_trackers(u.query, u.am, w.tick)
    IN [query |-> u.query,
        world |-> [w EXCEPT !.archetype_manager = t.am,
                            !.fault = IF @ # "none" THEN @ ELSE t.fault]]

\* ------------------------------------------------------------ iteration
\* The parameters of a bundle whose item carries a modified flag.
TrackedComps(C) ==
    {C[i].comp : i \in {j \in DOMAIN C : C[j].kind \in {"tracked_read", "tracked_write"}}}

\* Tracked<&T>::fetch_item: Modified iff the row's modified tick is at least
\* the column's last_read.
Tracked_is_modified(storage, index) ==
    storage.tracker.info[index + 1] >= storage.tracker.last_read

\* The components of the Option<&T> / Option<&mut T> parameters of a bundle.
OptionalComps(C) ==
    {C[i].comp : i \in {j \in DOMAIN C : C[j].kind \in {"opt_read", "opt_write"}}}

\* Mutant of Option<&T>::prepare_storage: the column is never looked up.
Option_prepare_storage_absent(archetype, id) == [some |-> FALSE]

\* Option<&T>::prepare_storage: Some(column) iff the archetype has the component.
Option_prepare_storage(archetype, id) ==
    IF Archetype_has_component(archetype, id)
    THEN [some |-> TRUE, storage |-> archetype.components[id]]
    ELSE [some |-> FALSE]

\* Option<&T>::fetch_item: the row's value of a present column, else None.
Option_fetch_item(storage, index) ==
    IF storage.some THEN storage.storage.components[index + 1] ELSE None

\* ComponentChunkIter: the rows 0 .. len - 1 of one archetype, in row order.
\* An item is the row's entity with the tracked parameters that read Modified
\* and the items of the Option parameters.
ComponentChunkIter(archetype, C) ==
    [i \in 1 .. Len(archetype.entities) |->
        [entity |-> archetype.entities[i],
         archetype |-> archetype.id,
         optional |-> [c \in OptionalComps(C) |->
                          Option_fetch_item(Option_prepare_storage(archetype, c), i - 1)],
         modified |-> {c \in TrackedComps(C) \cap DOMAIN archetype.components :
                          /\ archetype.components[c].tracker.enabled
                          /\ Tracked_is_modified(archetype.components[c], i - 1)}]]

\* ComponentBundleIter: the chunks of the listed archetypes, in list order.
RECURSIVE ComponentBundleIter(_, _, _)
ComponentBundleIter(am, C, archetype_ids) ==
    IF archetype_ids = <<>> THEN <<>>
    ELSE ComponentChunkIter(am.archetype_table[Head(archetype_ids)], C)
             \o ComponentBundleIter(am, C, Tail(archetype_ids))

\* Query::iter
Query_iter(q, w) == ComponentBundleIter(w.archetype_manager, q.C, q.archetype_ids)

\* prepare_storage of Not<T> and And<T> is unimplemented!(): iterating a
\* listed archetype with such a parameter in the component bundle panics.
Query_iter_panics(q) ==
    /\ q.archetype_ids # <<>>
    /\ \E i \in DOMAIN q.C : q.C[i].kind \in {"not", "and"}

\* --------------------------------------------------------- CommandQueue
\* An Entity is a u32; the buffer holds it as that number.
Entity_to_bits(entity) == entity.gen * (MaxSlots + 1) + entity.idx
Entity_from_bits(n) == [idx |-> n % (MaxSlots + 1), gen |-> n \div (MaxSlots + 1)]

\* The commands a system may queue.
AddComponentCommand(entity, comp_id, component) ==
    [kind |-> "add_component", entity |-> entity, comp |-> comp_id, component |-> component]
RemoveComponentCommand(entity, comp_id) ==
    [kind |-> "remove_component", entity |-> entity, comp |-> comp_id, component |-> None]
AddEntityCommand ==
    [kind |-> "add_entity", entity |-> Entity_from_bits(0), comp |-> Entity_parameter_id,
     component |-> None]
RemoveEntityCommand(entity) ==
    [kind |-> "remove_entity", entity |-> entity, comp |-> Entity_parameter_id,
     component |-> None]
FlagModifiedCommand(entity, comp_id) ==
    [kind |-> "flag_modified", entity |-> entity, comp |-> comp_id, component |-> None]

\* The bytes of a command value, as write_unaligned lays them down: the entity
\* field, then the component field; AddEntityCommand is zero-sized.
Command_bytes(command) ==
    CASE command.kind = "add_component" ->
             <<Entity_to_bits(command.entity), command.component>>
      [] command.kind = "add_entity" -> <<>>
      [] OTHER -> <<Entity_to_bits(command.entity)>>

\* CommandMetadata::new::<C>(): the layout of the command type and its execute.
CommandMetadata_new(command) ==
    [size |-> Len(Command_bytes(command)), kind |-> command.kind, comp |-> command.comp]

CommandQueue_new == [commands |-> <<>>, metadata |-> <<>>]

\* CommandQueue::push
CommandQueue_push(queue, command) ==
    [commands |-> queue.commands \o Command_bytes(command),
     metadata |-> Append(queue.metadata, CommandMetadata_new(command))]

RECURSIVE CommandQueue_push_all(_, _)
CommandQueue_push_all(queue, commands) ==
    IF commands = <<>> THEN queue
    ELSE CommandQueue_push_all(CommandQueue_push(queue, Head(commands)), Tail(commands))

\* The command value read_unaligned finds at ptr for a metadata entry.
Command_read(commands, ptr, metadata) ==
    CASE metadata.kind = "add_component" ->
             AddComponentCommand(
                 Entity_from_bits(commands[ptr + 1]), metadata.comp, commands[ptr + 2])
      [] metadata.kind = "add_entity" -> AddEntityCommand
      [] OTHER ->
             [kind |-> metadata.kind, entity |-> Entity_from_bits(commands[ptr + 1]),
              comp |-> metadata.comp, component |-> None]

\* The slot EntityManager::create fills when a command creates an entity.
Store_next_slot(records) ==
    CHOOSE idx \in Store_free_slots(records) :
        \A other \in Store_free_slots(records) : idx <= other

\* FlagModifiedCommand::execute: the record, the column and the tracker are
\* all reached unchecked.
FlagModifiedCommand_execute(w, entity, comp_id) ==
    IF ~RecordReadable(w.entity_manager, entity) THEN [w EXCEPT !.fault = "undefined"]
    ELSE
    LET entity_record == get_record(w.entity_manager, entity)
        archetype == w.archetype_manager.archetype_table[entity_record.archetype_id]
    IN IF \/ comp_id \notin DOMAIN archetype.components
          \/ ~archetype.components[comp_id].tracker.enabled
          \/ entity_record.archetype_row >= Len(archetype.components[comp_id].tracker.info)
       THEN [w EXCEPT !.fault = "undefined"]
       ELSE [w EXCEPT
                !.archetype_manager.archetype_table[entity_record.archetype_id]
                    .components[comp_id].tracker =
                    [@ EXCEPT !.info[entity_record.archetype_row + 1] = w.tick,
                              !.last_write = w.tick]]

\* Command::execute of each command type.
Command_execute(command, w) ==
    CASE command.kind = "add_component" ->
             World_add_component(w, command.entity, command.comp, command.component)
      [] command.kind = "remove_component" ->
             World_remove_component(w, command.entity, command.comp)
      [] command.kind = "add_entity" ->
             IF Store_free_slots(w.entity_manager) = {} THEN w
             ELSE World_create_entity(w, Store_next_slot(w.entity_manager))
      [] command.kind = "remove_entity" -> World_delete_entity(w, command.entity)
      [] command.kind = "flag_modified" ->
             FlagModifiedCommand_execute(w, command.entity, command.comp)

\* Mutant of flush: the cursor advances by one byte per command.
RECURSIVE CommandQueue_flush_from_by_one(_, _, _, _, _)
CommandQueue_flush_from_by_one(commands, metadata, ptr, w, executed) ==
    IF metadata = <<>> \/ w.fault # "none" THEN [world |-> w, executed |-> executed]
    ELSE The({CommandQueue_flush_from_by_one(
                  commands, Tail(metadata), ptr + 1, after, Append(executed, command)) :
              command \in {Command_read(commands \o <<0, 0>>, ptr, Head(metadata))},
              after \in {Command_execute(
                            Command_read(commands \o <<0, 0>>, ptr, Head(metadata)), w)}})

\* The loop of CommandQueue::flush: execute the command at ptr, advance ptr by
\* the size of its layout.
RECURSIVE CommandQueue_flush_from(_, _, _, _, _)
CommandQueue_flush_from(commands, metadata, ptr, w, executed) ==
    IF metadata = <<>> \/ w.fault # "none" THEN [world |-> w, executed |-> executed]
    ELSE The({CommandQueue_flush_from(
                  commands, Tail(metadata), ptr + Head(metadata).size,
                  after, Append(executed, command)) :
              command \in {Command_read(commands, ptr, Head(metadata))},
              after \in {Command_execute(Command_read(commands, ptr, Head(metadata)), w)}})

\* CommandQueue::flush: the metadata is drained and the buffer length reset.
CommandQueue_flush(queue, w) ==
    The({[queue |-> CommandQueue_new, world |-> r.world, executed |-> r.executed] :
        r \in {CommandQueue_flush_from(queue.commands, queue.metadata, 0, w, <<>>)}})

\* ---------------------------------------------------- System / Schedule
\* One entry of the record of what an update did, in the order it did it.
Event(phase, schedule, system, detail) ==
    [phase |-> phase, schedule |-> schedule, system |-> system, detail |-> detail]

\* System::new; the system function is the user's and is not part of the state.
System_new(q) == [query |-> q, last_update |-> 0]

\* Mutant of System::run: the commands act on the world as they are queued.
RECURSIVE System_run_immediate(_, _, _, _)
System_run_immediate(system, commands, w, pushed) ==
    IF pushed = <<>>
    THEN [system |-> [system EXCEPT !.last_update = w.tick],
          commands |-> commands,
          world |-> w,
          yielded |-> Query_iter(system.query, w)]
    ELSE System_run_immediate(system, commands, Command_execute(Head(pushed), w), Tail(pushed))

\* System::run: the function is handed the query's iterator and the
\* schedule's command queue; `pushed` is what it queues.
System_run(system, commands, w, pushed) ==
    [system |-> [system EXCEPT !.last_update = w.tick],
     commands |-> CommandQueue_push_all(commands, pushed),
     world |-> IF Query_iter_panics(system.query) /\ w.fault = "none"
               THEN [w EXCEPT !.fault = "panic"]
               ELSE w,
     yielded |-> Query_iter(system.query, w)]

\* Schedule::run_all from system i on: the systems in declaration order.
RECURSIVE Schedule_run_from(_, _, _, _, _)
Schedule_run_from(schedule, i, w, pushes, s) ==
    IF i > Len(schedule.systems) THEN [schedule |-> schedule, world |-> w, log |-> <<>>]
    ELSE The({The({[schedule |-> rest.schedule,
                    world |-> rest.world,
                    log |-> <<Event("run", s, i, r.yielded)>> \o rest.log] :
                  rest \in {Schedule_run_from(
                               [schedule EXCEPT !.systems[i] = r.system,
                                                !.commands = r.commands],
                               i + 1, r.world, pushes, s)}}) :
              r \in {System_run(schedule.systems[i], schedule.commands, w, pushes[i])}})

\* Schedule::run_all
Schedule_run_all(schedule, w, pushes, s) == Schedule_run_from(schedule, 1, w, pushes, s)

\* Schedule::flush_commands
Schedule_flush_commands(schedule, w, s) ==
    The({[schedule |-> [schedule EXCEPT !.commands = r.queue],
          world |-> r.world,
          log |-> <<Event("flush", s, 0, r.executed)>>] :
        r \in {CommandQueue_flush(schedule.commands, w)}})

\* Schedule::sync from system i on.
RECURSIVE Schedule_sync_from(_, _, _, _)
Schedule_sync_from(schedule, i, w, s) ==
    IF i > Len(schedule.systems) THEN [schedule |-> schedule, world |-> w, log |-> <<>>]
    ELSE The({The({[schedule |-> rest.schedule,
                    world |-> rest.world,
                    log |-> <<Event("sync", s, i, <<>>)>> \o rest.log] :
                  rest \in {Schedule_sync_from(
                               [schedule EXCEPT !.systems[i].query = r.query],
                               i + 1, r.world, s)}}) :
              r \in {Query_sync(schedule.systems[i].query, w)}})

\* Schedule::sync
Schedule_sync(schedule, w, s) == Schedule_sync_from(schedule, 1, w, s)

\* Schedule::update: run, flush and sync of one schedule on its own.
Schedule_update(schedule, w, pushes, s) ==
    The({The({The({[schedule |-> synced.schedule,
                    world |-> synced.world,
                    log |-> ran.log \o flushed.log \o synced.log] :
                  synced \in {Schedule_sync(flushed.schedule, flushed.world, s)}}) :
              flushed \in {Schedule_flush_commands(ran.schedule, ran.world, s)}}) :
        ran \in {Schedule_run_all(schedule, w, pushes, s)}})

\* -------------------------------------------------------- SystemManager
\* SystemManager::run_all from schedule s on.
RECURSIVE SystemManager_run_from(_, _, _, _)
SystemManager_run_from(schedules, s, w, pushes) ==
    IF s > Len(schedules) THEN [schedules |-> schedules, world |-> w, log |-> <<>>]
    ELSE The({The({[schedules |-> rest.schedules,
                    world |-> rest.world,
                    log |-> r.log \o rest.log] :
                  rest \in {SystemManager_run_from(
                               [schedules EXCEPT ![s] = r.schedule],
                               s + 1, r.world, pushes)}}) :
              r \in {Schedule_run_all(schedules[s], w, pushes[s], s)}})

\* SystemManager::run_all
SystemManager_run_all(schedules, w, pushes) == SystemManager_run_from(schedules, 1, w, pushes)

\* Mutant of SystemManager::flush_commands: the queues are flushed from the
\* last schedule to the first.
RECURSIVE SystemManager_flush_from_last(_, _, _)
SystemManager_flush_from_last(schedules, s, w) ==
    IF s > Len(schedules) THEN [schedules |-> schedules, world |-> w, log |-> <<>>]
    ELSE The({The({[schedules |-> rest.schedules,
                    world |-> rest.world,
                    log |-> r.log \o rest.log] :
                  rest \in {SystemManager_flush_from_last(
                               [schedules EXCEPT ![Len(schedules) + 1 - s] = r.schedule],
                               s + 1, r.world)}}) :
              r \in {Schedule_flush_commands(
                         schedules[Len(schedules) + 1 - s], w, Len(schedules) + 1 - s)}})

\* SystemManager::flush_commands from schedule s on.
RECURSIVE SystemManager_flush_from(_, _, _)
SystemManager_flush_from(schedules, s, w) ==
    IF s > Len(schedules) THEN [schedules |-> schedules, world |-> w, log |-> <<>>]
    ELSE The({The({[schedules |-> rest.schedules,
                    world |-> rest.world,
                    log |-> r.log \o rest.log] :
                  rest \in {SystemManager_flush_from(
                               [schedules EXCEPT ![s] = r.schedule], s + 1, r.world)}}) :
              r \in {Schedule_flush_commands(schedules[s], w, s)}})

\* SystemManager::flush_commands
SystemManager_flush_commands(schedules, w) == SystemManager_flush_from(schedules, 1, w)

\* SystemManager::sync from schedule s on.
RECURSIVE SystemManager_sync_from(_, _, _)
SystemManager_sync_from(schedules, s, w) ==
    IF s > Len(schedules) THEN [schedules |-> schedules, world |-> w, log |-> <<>>]
    ELSE The({The({[schedules |-> rest.schedules,
                    world |-> rest.world,
                    log |-> r.log \o rest.log] :
                  rest \in {SystemManager_sync_from(
                               [schedules EXCEPT ![s] = r.schedule], s + 1, r.world)}}) :
              r \in {Schedule_sync(schedules[s], w, s)}})

\* SystemManager::sync
SystemManager_sync(schedules, w) == SystemManager_sync_from(schedules, 1, w)

\* Mutant of SystemManager::update: each schedule is run, flushed and synced
\* before the next one starts (Schedule::update per schedule).
RECURSIVE SystemManager_update_each_from(_, _, _, _)
SystemManager_update_each_from(schedules, s, w, pushes) ==
    IF s > Len(schedules) THEN [schedules |-> schedules, world |-> w, log |-> <<>>]
    ELSE The({The({[schedules |-> rest.schedules,
                    world |-> rest.world,
                    log |-> r.log \o rest.log] :
                  rest \in {SystemManager_update_each_from(
                               [schedules EXCEPT ![s] = r.schedule],
                               s + 1, r.world, pushes)}}) :
              r \in {Schedule_update(schedules[s], w, pushes[s], s)}})

SystemManager_update_per_schedule(schedules, w, pushes) ==
    The({[schedules |-> r.schedules,
          world |-> [r.world EXCEPT !.archetype_manager.new_archetypes_queue = <<>>],
          log |-> r.log \o <<Event("clear", 0, 0, <<>>)>>,
          ran |-> w,
          queued |-> schedules,
          flushed |-> r.world,
          drained |-> r.schedules] :
        r \in {SystemManager_update_each_from(schedules, 1, w, pushes)}})

\* Mutant of SystemManager::update: the queries are synced before the systems run.
SystemManager_update_sync_first(schedules, w, pushes) ==
    The({The({The({
        [schedules |-> flushed.schedules,
         world |-> [flushed.world EXCEPT !.archetype_manager.new_archetypes_queue = <<>>],
         log |-> synced.log \o ran.log \o flushed.log \o <<Event("clear", 0, 0, <<>>)>>,
         ran |-> ran.world,
         queued |-> ran.schedules,
         flushed |-> flushed.world,
         drained |-> flushed.schedules] :
                  flushed \in {SystemManager_flush_commands(ran.schedules, ran.world)}}) :
              ran \in {SystemManager_run_all(synced.schedules, synced.world, pushes)}}) :
        synced \in {SystemManager_sync(schedules, w)}})

\* SystemManager::update: run every system, flush every queue, sync every
\* query, clear the new-archetype queue.  `ran` and `queued` are the world and
\* the schedules as run_all left them, `flushed` and `drained` as
\* flush_commands left them.
SystemManager_update(schedules, w, pushes) ==
    The({The({The({
        [schedules |-> synced.schedules,
         world |-> [synced.world EXCEPT !.archetype_manager.new_archetypes_queue = <<>>],
         log |-> ran.log \o flushed.log \o synced.log \o <<Event("clear", 0, 0, <<>>)>>,
         ran |-> ran.world,
         queued |-> ran.schedules,
         flushed |-> flushed.world,
         drained |-> flushed.schedules] :
                  synced \in {SystemManager_sync(flushed.schedules, flushed.world)}}) :
              flushed \in {SystemManager_flush_commands(ran.schedules, ran.world)}}) :
        ran \in {SystemManager_run_all(schedules, w, pushes)}})

\* World::update: the system manager is taken out of the world, updates it,
\* and is put back; then the tick is incremented.
World_update(w, pushes) ==
    The({[world |-> [r.world EXCEPT !.system_manager = r.schedules, !.tick = @ + 1],
          log |-> r.log \o <<Event("tick", 0, 0, <<>>)>>,
          ran |-> r.ran,
          queued |-> r.queued,
          flushed |-> r.flushed,
          drained |-> r.drained] :
        r \in {SystemManager_update(
                   w.system_manager, [w EXCEPT !.system_manager = <<>>], pushes)}})

\* Mutant of World::add_schedule: adding a schedule advances the tick.
World_add_schedule_ticking(w, schedule) ==
    [w EXCEPT !.system_manager = Append(@, schedule), !.tick = @ + 1]

\* World::add_schedule / SystemManager::add
World_add_schedule(w, schedule) == [w EXCEPT !.system_manager = Append(@, schedule)]

\* ---------------------------------------------------------- the machine
\* The component types of the worlds below: the first NumComps types,
\* registered in order before anything else is done.
WorldComponents == [k \in 1 .. NumComps |-> k]

Init ==
    /\ component_manager = ComponentManager_register_all(ComponentManager_new, WorldComponents)
    /\ registered = WorldComponents
    /\ entity_manager = World_new.entity_manager
    /\ archetype_manager = World_new.archetype_manager
    /\ tick = World_new.tick
    /\ fault = World_new.fault
    /\ system_manager = World_new.system_manager
    /\ pending = <<>>
    /\ issued = {}
    /\ retired = {}
    /\ query = NoQuery
    /\ filter_bundle = <<>>
    /\ examined = {}
    /\ created = {}

Becomes(w) ==
    /\ entity_manager' = w.entity_manager
    /\ archetype_manager' = w.archetype_manager
    /\ tick' = w.tick
    /\ fault' = w.fault
    /\ system_manager' = w.system_manager

\* An archetype is created when the table gains its id.
Created ==
    created' = created \cup
        (DOMAIN archetype_manager'.archetype_table \ DOMAIN archetype_manager.archetype_table)

\* World operations on the entities and values of the given sets.
CreateEntityIn(slots) ==
    /\ fault = "none"
    /\ \E idx \in Store_free_slots(entity_manager) \cap slots :
           /\ Becomes(World_create_entity(World, idx))
           /\ issued' = issued \cup {Store_key(entity_manager', idx)}
    /\ Created
    /\ UNCHANGED <<component_manager, registered>>
    /\ UNCHANGED <<pending, retired, query, filter_bundle, examined>>

DeleteEntityIn(entities) ==
    /\ fault = "none"
    /\ \E entity \in entities :
           /\ Becomes(World_delete_entity(World, entity))
           /\ retired' = IF entity \in issued THEN retired \cup {entity} ELSE retired
    /\ Created
    /\ UNCHANGED <<component_manager, registered>>
    /\ UNCHANGED <<pending, issued, query, filter_bundle, examined>>

AddComponentIn(entities, components) ==
    /\ fault = "none"
    /\ \E entity \in entities, comp_id \in ComponentIDs, component \in components :
           Becomes(World_add_component(World, entity, comp_id, component))
    /\ Created
    /\ UNCHANGED <<component_manager, registered>>
    /\ UNCHANGED <<pending, issued, retired, query, filter_bundle, examined>>

RemoveComponentIn(entities) ==
    /\ fault = "none"
    /\ \E entity \in entities, comp_id \in ComponentIDs :
           Becomes(World_remove_component(World, entity, comp_id))
    /\ Created
    /\ UNCHANGED <<component_manager, registered>>
    /\ UNCHANGED <<pending, issued, retired, query, filter_bundle, examined>>

CreateEntity == CreateEntityIn(1 .. MaxSlots)

DeleteEntity == DeleteEntityIn(Entities)

AddComponent == AddComponentIn(Entities, Values)

RemoveComponent == RemoveComponentIn(Entities)

\* What the system functions may queue in one update: pushes[s][i] is the
\* command sequence system i of schedule s pushes.
CommandEntities == {e \in Entities : e.idx = 1 /\ e.gen = 0}

CommandComps == {0}

SystemCommands ==
    {AddComponentCommand(e, c, 1) : e \in CommandEntities, c \in CommandComps}
        \cup {RemoveComponentCommand(e, c) : e \in CommandEntities, c \in CommandComps}
        \cup {FlagModifiedCommand(e, c) : e \in CommandEntities, c \in CommandComps}
        \cup {RemoveEntityCommand(e) : e \in CommandEntities}
        \cup {AddEntityCommand}

\* The systems of a world, as (schedule, system) positions.
SystemsOf(w) ==
    {<<s, i>> : s \in DOMAIN w.system_manager, i \in 1 .. MaxSystems} \cap
        {p \in (1 .. MaxSchedules) \X (1 .. MaxSystems) :
            /\ p[1] \in DOMAIN w.system_manager
            /\ p[2] \in DOMAIN w.system_manager[p[1]].systems}

RECURSIVE Flatten(_)
Flatten(seqs) == IF seqs = <<>> THEN <<>> ELSE Head(seqs) \o Flatten(Tail(seqs))

\* The commands of pushes in the order the systems queue them.
Pushed(pushes) == Flatten(Flatten(pushes))

\* At most one command per system and MaxPushed in all; no more entities are
\* created than the bounded store has free slots.
PushesOf(w, f) ==
    [s \in DOMAIN w.system_manager |->
        [i \in DOMAIN w.system_manager[s].systems |->
            IF <<s, i>> \in DOMAIN f THEN <<f[<<s, i>>]>> ELSE <<>>]]

PushChoices(w) ==
    {pushes \in
        UNION {{PushesOf(w, f) : f \in [T -> SystemCommands]} :
                  T \in {U \in SUBSET SystemsOf(w) : Cardinality(U) <= MaxPushed}} :
        Len(SelectSeq(Pushed(pushes), LAMBDA command : command.kind = "add_entity"))
            <= Cardinality(Store_free_slots(w.entity_manager))}

\* World::update; issued / retired follow the entities its commands create
\* and delete.
UpdateWithin(limit) ==
    /\ fault = "none"
    /\ tick < limit
    /\ \E pushes \in PushChoices(World) :
           /\ Becomes(World_update(World, pushes).world)
           /\ issued' = issued \cup {e \in Entities : EntityManager_alive(entity_manager', e)}
           /\ retired' = retired \cup
                  {Pushed(pushes)[k].entity : k \in
                      {j \in DOMAIN Pushed(pushes) :
                          /\ Pushed(pushes)[j].kind = "remove_entity"
                          /\ Pushed(pushes)[j].entity \in issued'}}
    /\ created' = {}
    /\ UNCHANGED <<component_manager, registered>>
    /\ UNCHANGED <<pending, query, filter_bundle, examined>>

Update == UpdateWithin(MaxTick)

Next == CreateEntity \/ DeleteEntity \/ AddComponent \/ RemoveComponent \/ Update

Spec == Init /\ [][Next]_vars

\* ------------------------------------------- the machine with one query
\* The world is driven through one entity (slot 1) holding the value 1, so
\* that every archetype of the lattice comes to exist; the query under
\* observation is built over it at any moment and synced at any moment.
LiveEntities == {e \in Entities : EntityManager_alive(entity_manager, e)}

QueryCreateEntity == CreateEntityIn({1})

QueryAddComponent == AddComponentIn(LiveEntities, {1})

QueryRemoveComponent == RemoveComponentIn(LiveEntities)

BuildQuery ==
    /\ fault = "none"
    /\ query = NoQuery
    /\ \E CFilter \in FilterBundles, C \in Bundles,
          order \in IterationOrders(archetype_manager.archetype_table) :
           /\ Len(CFilter) + Len(C) <= MaxBundle
           /\ LET b == Query_new(archetype_manager,
                              QueryBuilder_filter(FilterBuilder_new, CFilter), C, order)
              IN /\ query' = b.query
                 /\ archetype_manager' = b.am
                 /\ filter_bundle' = CFilter
    /\ examined' = DOMAIN archetype_manager.archetype_table
    /\ UNCHANGED <<component_manager, registered>>
    /\ UNCHANGED <<entity_manager, tick, fault, system_manager, pending, issued, retired,
                   created>>

SyncQuery ==
    /\ fault = "none"
    /\ query # NoQuery
    /\ Len(query.archetype_ids) + Len(archetype_manager.new_archetypes_queue) <= MaxListed
    /\ LET r == Query_sync(query, World)
       IN /\ query' = r.query
          /\ Becomes(r.world)
    /\ examined' = examined \cup Range(archetype_manager.new_archetypes_queue)
    /\ UNCHANGED <<component_manager, registered>>
    /\ UNCHANGED <<pending, issued, retired, filter_bundle, created>>

NextQuery ==
    \/ QueryCreateEntity
    \/ QueryAddComponent
    \/ QueryRemoveComponent
    \/ BuildQuery
    \/ SyncQuery

SpecQuery == Init /\ [][NextQuery]_vars

\* ------------------------------------------ the machine with schedules
\* The bundles the systems' queries are built from.
SystemBundles ==
    {<<[kind |-> "entity", comp |-> Entity_parameter_id], [kind |-> "read", comp |-> 0]>>,
     <<[kind |-> "tracked_read", comp |-> 0]>>}

\* world.query::<C>().build() for each bundle in turn, each into a System.
RECURSIVE BuildSystems(_, _, _)
BuildSystems(am, bundles, order) ==
    IF bundles = <<>> THEN [systems |-> <<>>, am |-> am]
    ELSE LET b == Query_new(am, FilterBuilder_new, Head(bundles), order)
             rest == BuildSystems(b.am, Tail(bundles), order)
         IN [systems |-> <<System_new(b.query)>> \o rest.systems, am |-> rest.am]

\* The systems built so far, added to the world or not.
SystemsHeld ==
    Len(Flatten([s \in DOMAIN (system_manager \o pending) |->
                    (system_manager \o pending)[s].systems]))

\* ScheduleBuilder::new().add(..).build() over freshly built queries; the
\* schedule is held by the caller until it is added.
BuildSchedule ==
    /\ fault = "none"
    /\ Len(pending) + Len(system_manager) < MaxSchedules
    /\ \E n \in 1 .. MaxSystems :
       \E bundles \in {b \in [1 .. n -> SystemBundles] : SystemsHeld + n <= MaxHeld},
          order \in IterationOrders(archetype_manager.archetype_table) :
           LET b == BuildSystems(archetype_manager, bundles, order)
           IN /\ pending' = Append(pending, [systems |-> b.systems, commands |-> CommandQueue_new])
              /\ archetype_manager' = b.am
    /\ UNCHANGED <<component_manager, registered>>
    /\ UNCHANGED <<entity_manager, tick, fault, system_manager,
                   issued, retired, query, filter_bundle, examined, created>>

\* World::add_schedule of a schedule built earlier.
AddSchedule ==
    /\ fault = "none"
    /\ pending # <<>>
    /\ Becomes(World_add_schedule(World, Head(pending)))
    /\ pending' = Tail(pending)
    /\ UNCHANGED <<component_manager, registered>>
    /\ UNCHANGED <<issued, retired, query, filter_bundle, examined, created>>

SystemUpdate == UpdateWithin(MaxUpdates)

NextSystem ==
    \/ QueryCreateEntity
    \/ QueryAddComponent
    \/ BuildSchedule
    \/ AddSchedule
    \/ SystemUpdate

SpecSystem == Init /\ [][NextSystem]_vars

\* ------------------------------- the machine of component registration
\* World::new, before any component is registered.
InitComponent ==
    /\ component_manager = ComponentManager_new
    /\ registered = <<>>
    /\ entity_manager = World_new.entity_manager
    /\ archetype_manager = World_new.archetype_manager
    /\ tick = World_new.tick
    /\ fault = World_new.fault
    /\ system_manager = World_new.system_manager
    /\ pending = <<>>
    /\ issued = {}
    /\ retired = {}
    /\ query = NoQuery
    /\ filter_bundle = <<>>
    /\ examined = {}
    /\ created = {}

\* World::register_component::<C>() for any type, registered before or not.
RegisterComponent ==
    /\ \E type_id \in TypeIds :
           /\ component_manager' = ComponentManager_register(component_manager, type_id)
           /\ registered' = IF type_id \in Range(registered) THEN registered
                             ELSE Append(registered, type_id)
    /\ UNCHANGED <<entity_manager, archetype_manager, tick, fault, system_manager, pending,
                   issued, retired, query, filter_bundle, examined, created>>

NextComponent == RegisterComponent

SpecComponent == InitComponent /\ [][NextComponent]_vars

\* ------------------------------------------------------ model soundness
\* Every unchecked access the operations make is in range: each entry of an
\* entity list names an occupied slot whose record points back at that row,
\* and every column has a value at every row of its archetype.
AccessesDefined ==
    \A id \in DOMAIN archetype_manager.archetype_table :
        LET arche == archetype_manager.archetype_table[id]
        IN /\ arche.id = id
           /\ DOMAIN arche.components = id
           /\ \A i \in 1 .. Len(arche.entities) :
                  /\ RecordReadable(entity_manager, arche.entities[i])
                  /\ get_record(entity_manager, arche.entities[i]) =
                         [archetype_id |-> id, archetype_row |-> i - 1]
           /\ \A c \in DOMAIN arche.components :
                  Len(arche.components[c].components) = Len(arche.entities)
           /\ \A c \in DOMAIN arche.edges :
                  arche.edges[c] \in DOMAIN archetype_manager.archetype_table

\* ------------------------------------------------------------ accessors
Table == archetype_manager.archetype_table

Alive(entity) == World_is_entity_alive(World, entity)

\* The component set of the archetype an entity's record names.
ComponentsOf(w, entity) == get_record(w.entity_manager, entity).archetype_id

\* Every place (archetype, position) at which an entity list holds `entity`.
Places(entity) ==
    {p \in UNION {{<<id, i>> : i \in 1 .. Len(Table[id].entities)} : id \in DOMAIN Table} :
        Table[p[1]].entities[p[2]] = entity}

\* The plain map entity -> component -> value a world stands for.
Abs(w) == [e \in Entities |-> [c \in ComponentIDs |-> World_get_component(w, e, c)]]

AbsAlive(w) == {e \in Entities : World_is_entity_alive(w, e)}

NoComponents == [c \in ComponentIDs |-> None]

\* The operations of the plain map.
Map_add(m, alive, entity, comp_id, component) ==
    IF entity \in alive /\ m[entity][comp_id] = None
    THEN [m EXCEPT ![entity][comp_id] = component]
    ELSE m

Map_remove(m, alive, entity, comp_id) ==
    IF entity \in alive THEN [m EXCEPT ![entity][comp_id] = None] ELSE m

Map_delete(m, alive, entity) ==
    IF entity \in alive THEN [m EXCEPT ![entity] = NoComponents] ELSE m

\* --------------------------------------------------------------- claims

\* C1: for every live entity, the archetype its directory record names exists
\* and holds the entity at the recorded row of its entities list.
C1_RecordNamesEntityRow ==
    \A e \in Entities :
        Alive(e) =>
            LET rec == get_record(entity_manager, e)
            IN /\ rec.archetype_id \in DOMAIN Table
               /\ rec.archetype_row < Len(Table[rec.archetype_id].entities)
               /\ Table[rec.archetype_id].entities[rec.archetype_row + 1] = e

\* C2: each live entity occurs exactly once across all entities lists, and no
\* entity that is not alive occurs in any of them.
C2_LiveEntitiesOccurOnce ==
    \A e \in Entities : Cardinality(Places(e)) = (IF Alive(e) THEN 1 ELSE 0)

C4_StoreRefinesMap ==
    /\ \A e \in Entities, c \in ComponentIDs, v \in Values :
           LET w2 == World_add_component(World, e, c, v)
           IN /\ Abs(w2) = Map_add(Abs(World), AbsAlive(World), e, c, v)
              /\ AbsAlive(w2) = AbsAlive(World)
    /\ \A e \in Entities, c \in ComponentIDs :
           LET w2 == World_remove_component(World, e, c)
           IN /\ Abs(w2) = Map_remove(Abs(World), AbsAlive(World), e, c)
              /\ AbsAlive(w2) = AbsAlive(World)
    /\ \A e \in Entities :
           LET w2 == World_delete_entity(World, e)
           IN /\ Abs(w2) = Map_delete(Abs(World), AbsAlive(World), e)
              /\ AbsAlive(w2) = AbsAlive(World) \ {e}
    /\ \A idx \in Store_free_slots(entity_manager) :
           LET w2 == World_create_entity(World, idx)
           IN /\ Abs(w2) = Abs(World)
              /\ AbsAlive(w2) = AbsAlive(World) \cup {Store_key(w2.entity_manager, idx)}

\* C5: add_component on an entity that is not alive changes no archetype,
\* column, entity list or directory record.
C5_AddOnDeadEntityIsNoOp ==
    \A e \in Entities, c \in ComponentIDs, v \in Values :
        ~Alive(e) =>
            LET w2 == World_add_component(World, e, c, v)
            IN /\ w2.entity_manager = entity_manager
               /\ w2.archetype_manager = archetype_manager

\* C6: delete_entity on an entity that is not alive (never created, already
\* deleted, or its slot reused by a newer entity) leaves the world unchanged.
C6_DeleteIsIdempotent ==
    \A e \in Entities : ~Alive(e) => World_delete_entity(World, e) = World

\* C6 witness: an entity has been deleted and its slot is occupied by a newer
\* entity; deleting the old handle again leaves the newer entity in place.
C6_Witness ==
    \E e \in retired :
        /\ ~Alive(e)
        /\ RecordReadable(entity_manager, e)
        /\ World_delete_entity(World, e) = World

\* C7: remove_component leaves the world unchanged when the entity is not
\* alive, or is alive and its archetype does not contain the component.
C7_RemoveAbsentIsNoOp ==
    \A e \in Entities, c \in ComponentIDs :
        (~Alive(e) \/ c \notin ComponentsOf(World, e)) =>
            World_remove_component(World, e, c) = World

\* C7 witness: a live entity lacks a component, and a deleted handle's slot is
\* occupied by a newer entity that has one; neither removal changes the world.
C7_Witness ==
    /\ \E e \in Entities, c \in ComponentIDs :
           /\ Alive(e)
           /\ c \notin ComponentsOf(World, e)
           /\ ComponentsOf(World, e) # {}
           /\ World_remove_component(World, e, c) = World
    /\ \E e \in retired, c \in ComponentIDs :
           /\ ~Alive(e)
           /\ RecordReadable(entity_manager, e)
           /\ c \in ComponentsOf(World, e)
           /\ World_remove_component(World, e, c) = World

\* The world after add_component(e, c, v) followed by remove_component(e, c).
AddThenRemove(e, c, v) ==
    World_remove_component(World_add_component(World, e, c, v), e, c)

\* C8: for a live entity that lacks a component, adding it and then removing
\* it returns the entity to an archetype with its original component set,
\* with the values of its other components unchanged.
C8_AddThenRemoveRestores ==
    \A e \in Entities, c \in ComponentIDs, v \in Values :
        (Alive(e) /\ c \notin ComponentsOf(World, e)) =>
            LET w2 == AddThenRemove(e, c, v)
            IN /\ w2.fault = "none"
               /\ World_is_entity_alive(w2, e)
               /\ ComponentsOf(w2, e) \in DOMAIN w2.archetype_manager.archetype_table
               /\ ComponentsOf(w2, e) = ComponentsOf(World, e)
               /\ \A c2 \in ComponentIDs \ {c} :
                      World_get_component(w2, e, c2) = World_get_component(World, e, c2)

\* C8 witness: the entity holds another component, shares its archetype with
\* another entity, and comes back at a different row.
C8_Witness ==
    \E e \in Entities, c \in ComponentIDs, v \in Values :
        /\ Alive(e)
        /\ c \notin ComponentsOf(World, e)
        /\ ComponentsOf(World, e) # {}
        /\ LET w2 == AddThenRemove(e, c, v)
           IN /\ ComponentsOf(w2, e) = ComponentsOf(World, e)
              /\ get_record(w2.entity_manager, e).archetype_row #
                     get_record(entity_manager, e).archetype_row

\* C9: entity handles are never reused: the handle the next create_entity
\* returns was never returned before, and a handle that create_entity returned
\* and delete_entity was called on is not alive in any later state.
C9_HandlesNeverReused ==
    /\ \A e \in retired : ~Alive(e)
    /\ \A idx \in Store_free_slots(entity_manager) :
           Store_key(World_create_entity(World, idx).entity_manager, idx) \notin issued

\* C9 witness: create_entity has reused the slot index of a deleted entity.
C9_Witness ==
    \E e \in retired, f \in issued : e.idx = f.idx /\ Alive(f) /\ ~Alive(e)

\* The components a bundle requires and the components it excludes.
Required(bundle) ==
    {bundle[i].comp : i \in {j \in DOMAIN bundle :
        bundle[j].kind \in {"read", "write", "tracked_read", "tracked_write", "and"}}}

Excluded(bundle) ==
    {bundle[i].comp : i \in {j \in DOMAIN bundle : bundle[j].kind = "not"}}

\* The query's whole parameter list: the filter bundle, then the component bundle.
Parameters == filter_bundle \o query.C

\* C10: an archetype the query has tested is in its match list iff its
\* component set contains every component of the read, write, tracked and And
\* parameters and none of the Not parameters; Option and Entity parameters
\* play no part.  Nothing else is in the match list.
C10_MatchListIsFilter ==
    query # NoQuery =>
        /\ Range(query.archetype_ids) \subseteq examined
        /\ \A id \in examined :
               id \in Range(query.archetype_ids) <=>
                   /\ Required(Parameters) \subseteq id
                   /\ Excluded(Parameters) \cap id = {}

\* C10 witness: a query with an Option parameter and an Entity or Not
\* parameter lists an archetype without the optional component and one with
\* it, has rejected an archetype, and sync has appended to its list (an
\* archetype still queued at the sync is listed a second time).
C10_Witness ==
    /\ query # NoQuery
    /\ \E i, j \in DOMAIN Parameters :
           /\ Parameters[i].kind \in {"opt_read", "opt_write"}
           /\ Parameters[j].kind \in {"entity", "not"}
           /\ \E id \in Range(query.archetype_ids) : Parameters[i].comp \in id
           /\ \E id \in Range(query.archetype_ids) : Parameters[i].comp \notin id
    /\ examined \ Range(query.archetype_ids) # {}
    /\ Len(query.archetype_ids) > Cardinality(Range(query.archetype_ids))

\* The archetypes of a table whose component set satisfies a bundle.
SatisfyingIn(table, bundle) ==
    {id \in DOMAIN table : Required(bundle) \subseteq id /\ Excluded(bundle) \cap id = {}}

Satisfying(bundle) == SatisfyingIn(Table, bundle)

\* The queries of the systems the world holds, by (schedule, system) position.
SystemQuery(p) == system_manager[p[1]].systems[p[2]].query

\* How many items of an iteration carry the entity.
Yields(yielded, e) == Cardinality({n \in DOMAIN yielded : yielded[n].entity = e})

\* C11: in any update, each system's iteration of its query yields every
\* entity that resides in an archetype satisfying the query's filter exactly
\* once, and yields no other entity.
C11_IterationYieldsMatchingOnce ==
    \A pushes \in PushChoices(World) :
        \A u \in {World_update(World, pushes)} :
            \A k \in DOMAIN u.log :
                u.log[k].phase = "run" =>
                    \A e \in Entities :
                        Yields(u.log[k].detail, e) =
                            IF \E id \in Satisfying(
                                   SystemQuery(<<u.log[k].schedule, u.log[k].system>>).C) :
                                   e \in Range(Table[id].entities)
                            THEN 1
                            ELSE 0

\* C12: when World::update returns, the set of archetype ids cached by the
\* query of every system the world holds is the set of archetypes of the
\* table that satisfy the query's filter.
C12_SystemListsMatchTable ==
    \A pushes \in PushChoices(World) :
        \A u \in {World_update(World, pushes)} :
            u.world.fault = "none" =>
                \A p \in SystemsOf(u.world) :
                    \A q \in {u.world.system_manager[p[1]].systems[p[2]].query} :
                        Range(q.archetype_ids) =
                            SatisfyingIn(u.world.archetype_manager.archetype_table, q.C)

\* The queries of the systems in the schedules the world holds and in the
\* schedules built and not yet added.
SystemQueries ==
    UNION {{sched.systems[i].query : i \in DOMAIN sched.systems} :
              sched \in Range(system_manager) \cup Range(pending)}

\* C13: no archetype id occurs more than once in the cached archetype list of
\* any query, in any reachable state.
C13_ListedAtMostOnce ==
    \A q \in SystemQueries :
        \A i, j \in DOMAIN q.archetype_ids :
            q.archetype_ids[i] = q.archetype_ids[j] => i = j

\* C14: between two clears the new-archetype queue holds exactly the archetypes
\* created since the last clear, each once (an archetype found through an
\* edge or in the table is not queued), and the queue is empty when
\* World::update returns.
C14_QueueHoldsCreatedOnce ==
    LET queue == archetype_manager.new_archetypes_queue
    IN /\ Range(queue) = created
       /\ \A i, j \in DOMAIN queue : queue[i] = queue[j] => i = j
       /\ \A pushes \in PushChoices(World) :
              World_update(World, pushes).world.archetype_manager.new_archetypes_queue = <<>>

\* C14 witness: after a clear, an archetype has been created and queued, the
\* table holds archetypes created before the clear, and an archetype has been
\* found in the table and linked without being created (the graph has more
\* edges than the creations alone put there).
C14_Witness ==
    /\ tick >= 1
    /\ archetype_manager.new_archetypes_queue # <<>>
    /\ (DOMAIN Table \ {root_archetype}) \ Range(archetype_manager.new_archetypes_queue) # {}
    /\ Cardinality({p \in (DOMAIN Table) \X ComponentIDs : p[2] \in DOMAIN Table[p[1]].edges})
           > 2 * (Cardinality(DOMAIN Table) - 1)

\* The pushes an update of the current state is examined under: every choice
\* within the bounds for the first MaxUpdates updates, no command after that.
UpdatePushes ==
    IF tick < MaxUpdates THEN PushChoices(World) ELSE {PushesOf(World, <<>>)}

\* C15: commands queued by systems are deferred: whatever the systems push,
\* when the last system of an update has run (before the first flush) no
\* entity has been created or deleted, no entity has changed archetype or
\* row, and no modified tick has changed.
C15_CommandsAreDeferred ==
    \A pushes \in UpdatePushes :
        \A u \in {World_update(World, pushes)} :
            /\ u.ran.entity_manager = entity_manager
            /\ u.ran.archetype_manager = archetype_manager

\* C15 witness: systems push commands that create an entity, delete one and
\* move one to another archetype once they are flushed.
C15_Witness ==
    \E pushes \in PushChoices(World) :
        \E u \in {World_update(World, pushes)} :
            /\ u.world.fault = "none"
            /\ \E k \in DOMAIN Pushed(pushes) :
                   Pushed(pushes)[k].kind \in {"add_entity", "remove_entity"}
            /\ \E k \in DOMAIN Pushed(pushes) :
                   Pushed(pushes)[k].kind \in {"add_component", "remove_component"}
            /\ u.world.entity_manager # entity_manager
            /\ DOMAIN u.world.archetype_manager.archetype_table # DOMAIN Table

\* A command's operation applied directly to the World.
Direct(command, w) ==
    CASE command.kind = "add_component" ->
             World_add_component(w, command.entity, command.comp, command.component)
      [] command.kind = "remove_component" ->
             World_remove_component(w, command.entity, command.comp)
      [] command.kind = "add_entity" ->
             World_create_entity(w, Store_next_slot(w.entity_manager))
      [] command.kind = "remove_entity" -> World_delete_entity(w, command.entity)
      [] command.kind = "flag_modified" ->
             FlagModifiedCommand_execute(w, command.entity, command.comp)

RECURSIVE DirectAll(_, _)
DirectAll(commands, w) ==
    IF commands = <<>> THEN w
    ELSE The({DirectAll(Tail(commands), after) : after \in {Direct(Head(commands), w)}})

\* The flush events of a log, in order.
Flushes(log) == SelectSeq(log, LAMBDA event : event.phase = "flush")

\* C16: a flush executes every queued command exactly once, in the order the
\* commands were queued, and leaves the queue empty, so that a second flush
\* does nothing; the world after the flush is the world obtained by applying
\* the same operations directly to the World in that order.
C16_FlushExecutesInOrder ==
    \A pushes \in UpdatePushes :
        \A u \in {World_update(World, pushes)} :
            u.flushed.fault = "none" =>
                /\ Len(Flushes(u.log)) = Len(system_manager)
                /\ \A s \in DOMAIN system_manager :
                       /\ u.queued[s].commands =
                              CommandQueue_push_all(CommandQueue_new, Flatten(pushes[s]))
                       /\ Flushes(u.log)[s].detail = Flatten(pushes[s])
                       /\ u.drained[s].commands = CommandQueue_new
                /\ u.flushed = DirectAll(Pushed(pushes), u.ran)
                /\ \A again \in {SystemManager_flush_commands(u.drained, u.flushed)} :
                       /\ again.world = u.flushed
                       /\ again.schedules = u.drained
                       /\ \A s \in DOMAIN again.log : again.log[s].detail = <<>>

\* C16 witness: one queue holds two commands of different sizes, the first of
\* them zero-sized, and the flush of them changes the world without fault.
C16_Witness ==
    \E pushes \in PushChoices(World) :
        \E s \in DOMAIN system_manager :
            /\ Len(Flatten(pushes[s])) = 2
            /\ Flatten(pushes[s])[1].kind = "add_entity"
            /\ Flatten(pushes[s])[2].kind = "add_component"
            /\ \A u \in {World_update(World, pushes)} :
                   /\ u.world.fault = "none"
                   /\ u.world.entity_manager # entity_manager
                   /\ DOMAIN u.world.archetype_manager.archetype_table # DOMAIN Table

\* The place of a phase in the order run, flush, sync, clear, tick.
PhaseRank(phase) ==
    CASE phase = "run" -> 1
      [] phase = "flush" -> 2
      [] phase = "sync" -> 3
      [] phase = "clear" -> 4
      [] phase = "tick" -> 5

\* The events of a log in one phase, in order.
InPhase(log, phase) == SelectSeq(log, LAMBDA event : event.phase = phase)

\* C17: within one World::update every system of every schedule runs before
\* any command queue is flushed, every queue is flushed before any query is
\* synced, the new-archetype queue is cleared only after all queries have
\* synced, and the tick is incremented last.
C17_PhasesAreOrdered ==
    \A pushes \in UpdatePushes :
        \A u \in {World_update(World, pushes)} :
            /\ \A i \in 1 .. Len(u.log) - 1 :
                   PhaseRank(u.log[i].phase) <= PhaseRank(u.log[i + 1].phase)
            /\ Len(InPhase(u.log, "run")) = Cardinality(SystemsOf(World))
            /\ Len(InPhase(u.log, "flush")) = Len(system_manager)
            /\ Len(InPhase(u.log, "sync")) = Cardinality(SystemsOf(World))
            /\ Len(InPhase(u.log, "clear")) = 1
            /\ Len(InPhase(u.log, "tick")) = 1

\* C17 witness: the world holds two schedules, one of two systems and one of
\* one; systems of both schedules push commands, and the update completes
\* without fault.
C17_Witness ==
    /\ Len(system_manager) = 2
    /\ Cardinality(SystemsOf(World)) = 3
    /\ \E pushes \in PushChoices(World) :
           /\ \A s \in DOMAIN pushes : Flatten(pushes[s]) # <<>>
           /\ World_update(World, pushes).world.fault = "none"

\* The events of a log in one phase are in (schedule, system) order.
InPlaceOrder(events) ==
    \A i \in 1 .. Len(events) - 1 :
        \/ events[i].schedule < events[i + 1].schedule
        \/ /\ events[i].schedule = events[i + 1].schedule
           /\ events[i].system < events[i + 1].system

\* The world after the commands of the schedules 1 .. s have been applied,
\* schedule by schedule, to the world the systems ran on.
RECURSIVE AfterSchedules(_, _, _)
AfterSchedules(pushes, s, w) ==
    IF s = 0 THEN w
    ELSE The({DirectAll(Flatten(pushes[s]), before) :
                 before \in {AfterSchedules(pushes, s - 1, w)}})

\* C18: systems run in declaration order within a schedule and schedules in
\* the order they were added to the world; command queues are flushed in
\* schedule order, so the commands of an earlier schedule take effect before
\* the commands of a later schedule; queries are synced in the same order.
C18_DeclarationOrder ==
    \A pushes \in UpdatePushes :
        \A u \in {World_update(World, pushes)} :
            /\ InPlaceOrder(InPhase(u.log, "run"))
            /\ InPlaceOrder(InPhase(u.log, "flush"))
            /\ InPlaceOrder(InPhase(u.log, "sync"))
            /\ u.world.fault = "none" =>
                   /\ \A s \in DOMAIN system_manager :
                          InPhase(u.log, "flush")[s].detail = Flatten(pushes[s])
                   /\ u.flushed = AfterSchedules(pushes, Len(system_manager), u.ran)

\* C18 witness: the world holds two schedules, one of them of two systems;
\* both schedules queue commands, and applying the commands of the second
\* schedule before those of the first would leave another world.
C18_Witness ==
    /\ Len(system_manager) = 2
    /\ Cardinality(SystemsOf(World)) >= 3
    /\ \E pushes \in PushChoices(World) :
           /\ \A s \in DOMAIN pushes : Flatten(pushes[s]) # <<>>
           /\ \A u \in {World_update(World, pushes)} :
                  /\ u.world.fault = "none"
                  /\ DirectAll(Flatten(pushes[1]) \o Flatten(pushes[2]), u.ran) #
                         DirectAll(Flatten(pushes[2]) \o Flatten(pushes[1]), u.ran)

\* C19: the world tick starts at 0, increases by exactly 1 on each
\* World::update, and is changed by no other operation: create / delete
\* entity, add / remove component, query sync, add_schedule, and the run and
\* flush phases inside an update all leave it as it is.
C19_TickCountsUpdates ==
    /\ World_new.tick = 0
    /\ \A pushes \in UpdatePushes :
           \A u \in {World_update(World, pushes)} :
               /\ u.world.tick = tick + 1
               /\ u.ran.tick = tick
               /\ u.flushed.tick = tick
    /\ \A idx \in Store_free_slots(entity_manager) :
           World_create_entity(World, idx).tick = tick
    /\ \A entity \in Entities :
           /\ World_delete_entity(World, entity).tick = tick
           /\ \A comp_id \in ComponentIDs :
                  /\ World_remove_component(World, entity, comp_id).tick = tick
                  /\ \A component \in Values :
                         World_add_component(World, entity, comp_id, component).tick = tick
    /\ \A q \in SystemQueries : Query_sync(q, World).world.tick = tick
    /\ \A schedule \in Range(pending) : World_add_schedule(World, schedule).tick = tick

\* C19 witness: an update has advanced the tick, an archetype has been
\* created since, and the world holds a schedule and an entity while another
\* schedule waits to be added.
C19_Witness ==
    /\ tick = 1
    /\ created # {}
    /\ system_manager # <<>>
    /\ pending # <<>>
    /\ LiveEntities # {}

\* An update of w in which no system queues a command.
Quiet(w) == World_update(w, PushesOf(w, <<>>))

\* What the tracked reads of component c in the update u report for the
\* entity e: TRUE for Modified, FALSE for Unmodified.
TrackedReads(u, e, c) ==
    UNION {{(c \in u.log[k].detail[n].modified) :
               n \in {m \in DOMAIN u.log[k].detail : u.log[k].detail[m].entity = e}} :
           k \in {k \in DOMAIN u.log :
                     /\ u.log[k].phase = "run"
                     /\ c \in TrackedComps(
                            SystemQuery(<<u.log[k].schedule, u.log[k].system>>).C)}}

\* C20: a component row created at any tick (now, or after one more update)
\* and never flagged reads as Modified in the first update whose tracked read
\* reaches it and as Unmodified in every later one.
C20_NewRowReadsModifiedOnce ==
    \A e \in LiveEntities, c \in ComponentIDs, v \in Values :
        \A w0 \in {World, Quiet(World).world} :
            ~World_has_component(w0, e, c) =>
                \A u1 \in {Quiet(World_add_component(w0, e, c, v))} :
                    \A u2 \in {Quiet(u1.world)} :
                        \A u3 \in {Quiet(u2.world)} :
                            u3.world.fault = "none" =>
                                \A r1 \in {TrackedReads(u1, e, c)},
                                   r2 \in {TrackedReads(u2, e, c)},
                                   r3 \in {TrackedReads(u3, e, c)} :
                                    /\ r1 # {} =>
                                           /\ r1 = {TRUE}
                                           /\ r2 \subseteq {FALSE}
                                           /\ r3 \subseteq {FALSE}
                                    /\ r1 = {} /\ r2 # {} =>
                                           /\ r2 = {TRUE}
                                           /\ r3 \subseteq {FALSE}

\* The updates in which one system of the world queues flag_modified for the
\* component c of the entity e and nothing else is queued.
FlagPushes(e, c) ==
    {PushesOf(World, p :> FlagModifiedCommand(e, c)) : p \in SystemsOf(World)}

\* The worlds e's flagged component may be in when the next update starts:
\* as the flagging update left it, or with e moved to another archetype by
\* the addition of another component.
BeforeNextUpdate(w, e, c) ==
    {w} \cup {World_add_component(w, e, other, v) :
                 other \in ComponentIDs \ {c}, v \in Values}

\* C21: after flag_modified of e's component c is flushed in the update
\* running at tick t, every tracked read of it in the next update reports
\* Modified (the modified tick equals last_read there), whether or not e has
\* gained another component in between; the tracked reads of the update after
\* that report Unmodified, unless e is flagged again, in which case they
\* report Modified again.
C21_FlaggedReadsModifiedOnce ==
    \A e \in CommandEntities \cap LiveEntities, c \in CommandComps :
        World_has_component(World, e, c) =>
            \A pushes \in FlagPushes(e, c) :
                \A u1 \in {World_update(World, pushes)} :
                    u1.world.fault = "none" =>
                        /\ \A w1 \in BeforeNextUpdate(u1.world, e, c) :
                               w1.fault = "none" =>
                                   TrackedReads(Quiet(w1), e, c) \subseteq {TRUE}
                        /\ \A u2 \in {Quiet(u1.world)} :
                               /\ \A u3 \in {Quiet(u2.world)} :
                                      TrackedReads(u3, e, c) \subseteq {FALSE}
                               /\ \A u3 \in {World_update(u2.world, pushes)} :
                                      u3.world.fault = "none" =>
                                          \A u4 \in {Quiet(u3.world)} :
                                              TrackedReads(u4, e, c) \subseteq {TRUE}

\* The column of component k in the archetype the entity e resides in, in w.
ColumnOf(w, e, k) ==
    w.archetype_manager.archetype_table[ComponentsOf(w, e)].components[k]

\* Every tracked column of e's archetype in w carries the tick `now` as the
\* modified tick of e's row and as its last_write.
StampedAt(w, e, now) ==
    \A k \in ComponentsOf(w, e) :
        ColumnOf(w, e, k).tracker.enabled =>
            /\ ColumnOf(w, e, k).tracker.info[
                   get_record(w.entity_manager, e).archetype_row + 1] = now
            /\ ColumnOf(w, e, k).tracker.last_write = now

\* C22: when a component is pushed into a tracked column, or transferred
\* into one from another archetype (by add_component or remove_component),
\* while the world tick is t, the new row's modified tick is t and the
\* column's last_write becomes t.
C22_NewRowStampedWithTick ==
    \A e \in LiveEntities, c \in ComponentIDs :
        IF World_has_component(World, e, c)
        THEN \A w1 \in {World_remove_component(World, e, c)} :
                 w1.fault = "none" => StampedAt(w1, e, tick)
        ELSE \A v \in Values :
                 \A w1 \in {World_add_component(World, e, c, v)} :
                     w1.fault = "none" => StampedAt(w1, e, tick)

\* C23: executing flag_modified for a live entity e and a component c it has
\* never fails, whether or not the column has been enabled for tracking: it
\* leaves the column tracked, with the world tick as the modified tick of e's
\* row and as last_write; an update whose flush executes it does not fail.
C23_FlagEnablesTracker ==
    \A e \in LiveEntities : \A c \in ComponentsOf(World, e) :
        /\ \A w1 \in {FlagModifiedCommand_execute(World, e, c)} :
               /\ w1.fault = "none"
               /\ ColumnOf(w1, e, c).tracker.enabled
               /\ ColumnOf(w1, e, c).tracker.info[
                      get_record(w1.entity_manager, e).archetype_row + 1] = tick
               /\ ColumnOf(w1, e, c).tracker.last_write = tick
        /\ e \in CommandEntities /\ c \in CommandComps =>
               \A pushes \in FlagPushes(e, c) :
                   World_update(World, pushes).world.fault = "none"

\* The (archetype, component) columns the queries of the schedules read as
\* tracked: every component of a query's track list in every listed archetype.
TrackedColumns(schedules) ==
    UNION {UNION {Range(schedules[s].systems[i].query.archetype_ids)
                      \X Range(schedules[s].systems[i].query.filter.track) :
                  i \in DOMAIN schedules[s].systems} :
           s \in DOMAIN schedules}

\* Every column of a world, as (archetype, component).
Columns(w) ==
    UNION {{<<id, c>> : c \in DOMAIN w.archetype_manager.archetype_table[id].components} :
           id \in DOMAIN w.archetype_manager.archetype_table}

TrackerOf(w, col) ==
    w.archetype_manager.archetype_table[col[1]].components[col[2]].tracker

\* C24: the sync step of World::update sets last_read to the tick of the
\* update in progress (the value before the increment) on every column of
\* every query's track list in every archetype of its list as the sync leaves
\* it, archetypes taken in by this sync included; the last_read of every
\* other column is as the flush left it.
C24_SyncStampsLastRead ==
    \A pushes \in UpdatePushes :
        \A u \in {World_update(World, pushes)} :
            u.world.fault = "none" =>
                /\ TrackedColumns(u.world.system_manager) \subseteq Columns(u.world)
                /\ Columns(u.world) = Columns(u.flushed)
                /\ \A col \in Columns(u.world) :
                       IF col \in TrackedColumns(u.world.system_manager)
                       THEN /\ TrackerOf(u.world, col).enabled
                            /\ TrackerOf(u.world, col).last_read = tick
                       ELSE TrackerOf(u.world, col).last_read =
                                TrackerOf(u.flushed, col).last_read

\* C24 witness: at tick 1 an update takes a queued archetype into a tracked
\* query's list and sets the last_read of its column to 1, while a tracked
\* column that no query of the world lists keeps its last_read of 0.
C24_Witness ==
    /\ tick = 1
    /\ \A u \in {Quiet(World)} :
           /\ u.world.fault = "none"
           /\ \E col \in TrackedColumns(u.world.system_manager) :
                  /\ col \notin TrackedColumns(system_manager)
                  /\ col[1] \in Range(archetype_manager.new_archetypes_queue)
                  /\ TrackerOf(u.world, col).last_read = 1
           /\ \E col \in Columns(u.world) \ TrackedColumns(u.world.system_manager) :
                  /\ TrackerOf(u.world, col).enabled
                  /\ TrackerOf(u.world, col).last_read = 0

\* C25: in every reachable state, if archetype A has an edge labelled c to
\* archetype B, then B exists, the component sets of A and B differ in
\* exactly c, and B has an edge labelled c back to A.
C25_EdgesArePairedOneBitApart ==
    \A a \in DOMAIN Table : \A c \in DOMAIN Table[a].edges :
        \A b \in {Table[a].edges[c]} :
            /\ b \in DOMAIN Table
            /\ (a \ b) \cup (b \ a) = {c}
            /\ c \in DOMAIN Table[b].edges
            /\ Table[b].edges[c] = a

\* C26: the root archetype exists in every state, with the empty component
\* set and no columns; create_entity returns a live entity with an empty
\* component set that sits at the last row of the root archetype, and leaves
\* the directory records of all other slots, the other rows of the root and
\* every other archetype as they were.
C26_CreateEntityInRoot ==
    /\ root_archetype \in DOMAIN Table
    /\ Table[root_archetype].id = {}
    /\ DOMAIN Table[root_archetype].components = {}
    /\ \A idx \in Store_free_slots(entity_manager) :
           \A w2 \in {World_create_entity(World, idx)} :
               \A e \in {Store_key(w2.entity_manager, idx)} :
                   \A root \in {w2.archetype_manager.archetype_table[root_archetype]} :
                       /\ World_is_entity_alive(w2, e)
                       /\ ~Alive(e)
                       /\ ComponentsOf(w2, e) = {}
                       /\ \A c \in ComponentIDs : ~World_has_component(w2, e, c)
                       /\ get_record(w2.entity_manager, e).archetype_row = Len(root.entities) - 1
                       /\ root.entities = Append(Table[root_archetype].entities, e)
                       /\ root.components = Table[root_archetype].components
                       /\ \A id \in DOMAIN Table \ {root_archetype} :
                              w2.archetype_manager.archetype_table[id] = Table[id]
                       /\ DOMAIN w2.archetype_manager.archetype_table = DOMAIN Table
                       /\ \A i \in DOMAIN entity_manager \ {idx} :
                              w2.entity_manager[i] = entity_manager[i]
                       /\ \A other \in Entities \ {e}, c \in ComponentIDs :
                              World_get_component(w2, other, c) =
                                  World_get_component(World, other, c)

\* C26 witness: the root holds an entity, archetypes with columns exist, and
\* a slot freed by delete_entity is there for create_entity to fill with a
\* handle of the next generation, which lands behind the root's entity.
C26_Witness ==
    /\ fault = "none"
    /\ Len(Table[root_archetype].entities) = 1
    /\ Cardinality(DOMAIN Table) > 2
    /\ \E idx \in Store_free_slots(entity_manager) :
           /\ idx \in DOMAIN entity_manager
           /\ \A w2 \in {World_create_entity(World, idx)} :
                  /\ Store_key(w2.entity_manager, idx).gen = 1
                  /\ get_record(w2.entity_manager, Store_key(w2.entity_manager, idx))
                         .archetype_row = 1

\* The archetype ids the table of w has and the current table has not.
NewArchetypes(w) == DOMAIN w.archetype_manager.archetype_table \ DOMAIN Table

\* The archetype ids of the current table are all in the table of w.
KeepsArchetypes(w) == DOMAIN Table \subseteq DOMAIN w.archetype_manager.archetype_table

\* C27: the table holds each archetype under its component set, which is
\* also the set of its columns, so no two archetypes share a component set.
\* An archetype is created only by add_component or remove_component, and
\* only when the component set the transition targets is not in the table;
\* no operation removes an archetype, create_entity, delete_entity and update
\* included, also when the archetype is left without entities.  (Operations
\* are applied while no earlier one has left defined behaviour.)
C27_ArchetypesCreatedOnDemandAndKept ==
    /\ \A id \in DOMAIN Table :
           /\ Table[id].id = id
           /\ DOMAIN Table[id].components = id
    /\ fault = "none" =>
       /\ \A e \in Entities, c \in ComponentIDs :
              /\ \A v \in Values :
                     \A w2 \in {World_add_component(World, e, c, v)} :
                         /\ KeepsArchetypes(w2)
                         /\ NewArchetypes(w2) # {} =>
                                /\ RecordReadable(entity_manager, e)
                                /\ NewArchetypes(w2) = {ComponentsOf(World, e) \cup {c}}
              /\ \A w2 \in {World_remove_component(World, e, c)} :
                     /\ KeepsArchetypes(w2)
                     /\ NewArchetypes(w2) # {} =>
                            /\ Alive(e)
                            /\ NewArchetypes(w2) = {ComponentsOf(World, e) \ {c}}
       /\ \A e \in Entities :
              \A w2 \in {World_delete_entity(World, e)} :
                  KeepsArchetypes(w2) /\ NewArchetypes(w2) = {}
       /\ \A idx \in Store_free_slots(entity_manager) :
              \A w2 \in {World_create_entity(World, idx)} :
                  KeepsArchetypes(w2) /\ NewArchetypes(w2) = {}
       /\ \A w2 \in {Quiet(World).world} :
              KeepsArchetypes(w2) /\ NewArchetypes(w2) = {}

\* C27 witness: every component set has its archetype, one of them created
\* by a remove (the root has no edge to it), and delete_entity empties the
\* only archetype that holds an entity, which stays in the table.
C27_Witness ==
    /\ fault = "none"
    /\ DOMAIN Table = ArchetypeIDs
    /\ \E c \in ComponentIDs : c \notin DOMAIN Table[root_archetype].edges
    /\ \E e \in LiveEntities :
           /\ ComponentsOf(World, e) # {}
           /\ Len(Table[ComponentsOf(World, e)].entities) = 1
           /\ World_delete_entity(World, e).archetype_manager
                  .archetype_table[ComponentsOf(World, e)].entities = <<>>

\* Every tracked column of w has one tracker info entry per row.
TrackersFit(w) ==
    \A col \in Columns(w) :
        TrackerOf(w, col).enabled =>
            Len(TrackerOf(w, col).info) =
                Len(w.archetype_manager.archetype_table[col[1]].components[col[2]].components)

\* C28: after every public operation, the tracker of every column with
\* tracking enabled has one info entry per row of the column: in every
\* reachable state, and after delete_entity, add_component and
\* remove_component applied to it.
C28_TrackerAsLongAsColumn ==
    /\ TrackersFit(World)
    /\ fault = "none" =>
           \A e \in Entities :
               /\ TrackersFit(World_delete_entity(World, e))
               /\ \A c \in ComponentIDs :
                      /\ TrackersFit(World_remove_component(World, e, c))
                      /\ \A v \in Values :
                             \A w2 \in {World_add_component(World, e, c, v)} :
                                 w2.fault = "none" => TrackersFit(w2)

\* C28 witness: an update has deleted an entity, a tracked column holds two
\* rows, and a column of the same component in another archetype is not
\* tracked, so rows have moved between a tracked and an untracked column.
C28_Witness ==
    /\ fault = "none"
    /\ retired # {}
    /\ \E col \in Columns(World) :
           /\ TrackerOf(World, col).enabled
           /\ Len(TrackerOf(World, col).info) = 2
           /\ \E other \in Columns(World) :
                  /\ other[2] = col[2]
                  /\ ~TrackerOf(World, other).enabled
                  /\ other[2] \in DOMAIN Table[other[1]].edges

\* Every column with a tracker in the current world has one in w.
KeepsTrackers(w) ==
    \A col \in Columns(World) :
        TrackerOf(World, col).enabled =>
            col \in Columns(w) /\ TrackerOf(w, col).enabled

\* C29: for every query, built into a system of the world or of a schedule
\* not yet added, every column of its track list exists and has a tracker in
\* every archetype of its list, in every state the query can be iterated in;
\* and no operation removes the tracker of a column that has one, as long as
\* the column's archetype keeps the component (delete_entity, add_component,
\* remove_component, a query's sync, update).
C29_ListedTrackedColumnsHaveTrackers ==
    /\ \A q \in SystemQueries :
           \A id \in Range(q.archetype_ids), c \in Range(q.filter.track) :
               /\ id \in DOMAIN Table
               /\ c \in DOMAIN Table[id].components
               /\ Table[id].components[c].tracker.enabled
    /\ fault = "none" =>
           /\ \A e \in Entities :
                  /\ KeepsTrackers(World_delete_entity(World, e))
                  /\ \A c \in ComponentIDs :
                         /\ KeepsTrackers(World_remove_component(World, e, c))
                         /\ \A v \in Values :
                                \A w2 \in {World_add_component(World, e, c, v)} :
                                    w2.fault = "none" => KeepsTrackers(w2)
           /\ \A q \in SystemQueries : KeepsTrackers(Query_sync(q, World).world)
           /\ \A pushes \in UpdatePushes :
                  \A u \in {World_update(World, pushes)} :
                      u.world.fault = "none" => KeepsTrackers(u.world)

\* C29 witness: at tick 1 a query with a tracked parameter lists two
\* archetypes, each with rows in its tracked column, and another archetype
\* it will list is still queued.
C29_Witness ==
    /\ fault = "none"
    /\ tick = 1
    /\ \E q \in SystemQueries :
           /\ q.filter.track # <<>>
           /\ Cardinality(Range(q.archetype_ids)) = 2
           /\ \A id \in Range(q.archetype_ids) : Table[id].entities # <<>>
    /\ archetype_manager.new_archetypes_queue # <<>>

\* C30: component registration is idempotent and dense: the k-th distinct
\* type registered has id k - 1; registering a registered type changes
\* nothing, and its id stays what it was; registering a new type gives it the
\* next id and leaves every other id with its type, so no id is ever given to
\* a second type.
C30_RegistrationIdempotentAndDense ==
    /\ DOMAIN component_manager.ids = Range(registered)
    /\ \A k \in DOMAIN registered :
           /\ ComponentManager_get_id(component_manager, registered[k]) = k - 1
           /\ component_manager.metadata[k] = ComponentMetaData_new(registered[k])
    /\ Len(component_manager.metadata) = Len(registered)
    /\ \A type_id \in TypeIds :
           \A cm \in {ComponentManager_register(component_manager, type_id)} :
               /\ \A t \in DOMAIN component_manager.ids :
                      ComponentManager_get_id(cm, t) =
                          ComponentManager_get_id(component_manager, t)
               /\ \A t1, t2 \in DOMAIN cm.ids : cm.ids[t1] = cm.ids[t2] => t1 = t2
               /\ IF type_id \in Range(registered)
                  THEN cm = component_manager
                  ELSE /\ ComponentManager_get_id(cm, type_id) = Len(registered)
                       /\ DOMAIN cm.ids = Range(registered) \cup {type_id}
               /\ ComponentManager_register(cm, type_id) = cm

\* C30 witness: all types but one are registered, in an order that is not
\* the order of their type ids, so that one registration assigns the last id
\* and every other one is of a type registered before.
C30_Witness ==
    /\ Len(registered) = NumTypes - 1
    /\ \E k \in DOMAIN registered : registered[k] # k
    /\ \E type_id \in TypeIds \ Range(registered) :
           ComponentManager_get_id(
               ComponentManager_register(component_manager, type_id), type_id) = NumTypes - 1
    /\ ComponentManager_register(component_manager, registered[1]) = component_manager

\* C31: a query with a required component A and an optional component B (and
\* no excluding parameter) matches every archetype that contains A and the
\* query's other required components, with or without B (and lists every such
\* archetype it has tested); for each entity its iteration yields, the
\* optional item is present exactly when the entity has B, and is then the
\* entity's B value.
C31_OptionalMatchesAndYields ==
    (query # NoQuery /\ fault = "none") =>
        \A i, j \in DOMAIN query.C :
            (/\ filter_bundle = <<>>
             /\ query.filter.not_bitset = {}
             /\ query.C[i].kind \in {"read", "write"}
             /\ query.C[j].kind \in {"opt_read", "opt_write"}) =>
                /\ \A id \in DOMAIN Table :
                       (query.C[i].comp \in id /\ query.filter.and_bitset \subseteq id) =>
                           /\ Filter_matches_archetype(query.filter, Table[id]).matches
                           /\ id \in examined => id \in Range(query.archetype_ids)
                /\ \A yielded \in {Query_iter(query, World)} :
                       \A n \in DOMAIN yielded :
                           /\ yielded[n].optional[query.C[j].comp] # None <=>
                                  World_has_component(World, yielded[n].entity, query.C[j].comp)
                           /\ yielded[n].optional[query.C[j].comp] =
                                  World_get_component(World, yielded[n].entity, query.C[j].comp)

\* C31 witness: a query over (&A, Option<&B>), A # B, lists an archetype
\* without B and one with B, and its iteration yields an entity with the
\* optional item present.
C31_Witness ==
    /\ query # NoQuery
    /\ fault = "none"
    /\ filter_bundle = <<>>
    /\ Len(query.C) = 2
    /\ query.C[1].kind = "read"
    /\ query.C[2].kind = "opt_read"
    /\ query.C[1].comp # query.C[2].comp
    /\ \E id \in Range(query.archetype_ids) : query.C[2].comp \notin id
    /\ \E n \in DOMAIN Query_iter(query, World) :
           /\ Query_iter(query, World)[n].optional[query.C[2].comp] # None
           /\ query.C[2].comp \in Query_iter(query, World)[n].archetype

\* C31 witness of the absent case: the same query yields an entity that has
\* A and not B, with the optional item None.
C31_WitnessAbsent ==
    /\ query # NoQuery
    /\ fault = "none"
    /\ Len(query.C) = 2
    /\ query.C[1].kind = "read"
    /\ query.C[2].kind = "opt_read"
    /\ \E n \in DOMAIN Query_iter(query, World) :
           Query_iter(query, World)[n].optional[query.C[2].comp] = None

\* The components of a set in ascending order.
RECURSIVE Ascending(_)
Ascending(comps) ==
    IF comps = {} THEN <<>>
    ELSE LET least == CHOOSE c \in comps : \A d \in comps : c <= d
         IN <<least>> \o Ascending(comps \ {least})

\* add_component of the value 1 for each component of a sequence in turn.
RECURSIVE AddEach(_, _, _)
AddEach(w, entity, comps) ==
    IF comps = <<>> THEN w
    ELSE AddEach(World_add_component(w, entity, Head(comps), 1), entity, Tail(comps))

\* The world after one more entity is created in a new slot and given the
\* components of archetype id: it takes the last row of that archetype.
Joined(w, id) ==
    The({AddEach(c, Store_key(c.entity_manager, Len(c.entity_manager)), Ascending(id)) :
            c \in {World_create_entity(w, Len(w.entity_manager) + 1)}})

\* The current world, and the worlds in which a further entity has joined an
\* archetype that holds every entity of a full store.
Crowded ==
    {World} \cup
        {Joined(World, id) : id \in
            {k \in DOMAIN Table :
                /\ Len(entity_manager) = MaxSlots
                /\ Len(Table[k].entities) = MaxSlots
                /\ \A i \in 1 .. MaxSlots : EntityManager_alive(entity_manager, [idx |-> i, gen |-> entity_manager[i].gen])}}

\* The worlds an operation that makes live entity x leave its archetype gives.
Leaves(w, x) ==
    {World_delete_entity(w, x)}
        \cup {World_add_component(w, x, c, v) :
                 c \in ComponentIDs \ ComponentsOf(w, x), v \in Values}
        \cup {World_remove_component(w, x, c) : c \in ComponentsOf(w, x)}

\* Row i of x's former archetype holds, in the entity list, in every column
\* and in the directory, what row `from` held before x left.
RowTakenFrom(w, x, after, i, from) ==
    \A src \in {w.archetype_manager.archetype_table[ComponentsOf(w, x)]} :
    \A now \in {after.archetype_manager.archetype_table[ComponentsOf(w, x)]} :
        /\ now.entities[i] = src.entities[from]
        /\ \A c \in DOMAIN src.components :
               now.components[c].components[i] = src.components[c].components[from]
        /\ get_record(after.entity_manager, src.entities[from]) =
               [archetype_id |-> src.id, archetype_row |-> i - 1]

\* The live entities of a world, by the handle its store gives each slot.
LiveIn(w) ==
    {Store_key(w.entity_manager, i) :
        i \in {j \in DOMAIN w.entity_manager : w.entity_manager[j].live}}

\* C32: when an entity leaves an archetype from row r (delete_entity,
\* add_component or remove_component), the entity that was at the last row
\* takes row r in the entity list, in every column and in its directory
\* record, every other row of that archetype and its entity's record stay as
\* they were, and nothing else moves when the leaving entity was last.
C32_LastRowTakesFreedRow ==
    fault = "none" =>
        \A w \in Crowded :
            \A x \in LiveIn(w) :
                \A after \in Leaves(w, x) :
                    \A src \in {w.archetype_manager.archetype_table[ComponentsOf(w, x)]} :
                    \A r \in {get_record(w.entity_manager, x).archetype_row} :
                        /\ after.fault = "none"
                        /\ Len(after.archetype_manager.archetype_table[src.id].entities) =
                               Len(src.entities) - 1
                        /\ \A c \in DOMAIN src.components :
                               Len(after.archetype_manager.archetype_table[src.id]
                                       .components[c].components) = Len(src.entities) - 1
                        /\ \A i \in 1 .. (Len(src.entities) - 1) :
                               /\ RowTakenFrom(w, x, after, i,
                                      IF i = r + 1 THEN Len(src.entities) ELSE i)
                               /\ i # r + 1 =>
                                      get_record(after.entity_manager, src.entities[i]) =
                                          get_record(w.entity_manager, src.entities[i])

\* C32 witness: two live entities share an archetype with a column in which
\* their values differ, so that the one at row 0 leaving moves the other, the
\* one at the last row leaving moves nothing, and a third entity joining them
\* leaves a row in between untouched.
C32_Witness ==
    /\ fault = "none"
    /\ \E id \in DOMAIN Table :
           /\ Len(Table[id].entities) = MaxSlots
           /\ \A i \in 1 .. MaxSlots : Alive(Table[id].entities[i])
           /\ \E c \in id : Table[id].components[c].components[1] #
                                Table[id].components[c].components[MaxSlots]
           /\ Joined(World, id) \in Crowded
           /\ Len(Joined(World, id).archetype_manager.archetype_table[id].entities) =
                  MaxSlots + 1

\* The items the run of system p yields in the update u.
RunOf(u, p) ==
    Flatten([k \in DOMAIN u.log |->
                IF /\ u.log[k].phase = "run"
                   /\ u.log[k].schedule = p[1]
                   /\ u.log[k].system = p[2]
                THEN u.log[k].detail
                ELSE <<>>])

\* A run iterates archetype id: its items hold every entity that resided
\* there when the update began in world w.
Iterates(run, w, id) ==
    \A e \in Range(w.archetype_manager.archetype_table[id].entities) :
        \E n \in DOMAIN run : run[n].entity = e /\ run[n].archetype = id

\* The query of system p in world w.
QueryIn(w, p) == w.system_manager[p[1]].systems[p[2]].query

\* A query built now over bundle, its system alone in a schedule added to the world.
BuiltNow(bundle) ==
    The({World_add_schedule(
             [World EXCEPT !.archetype_manager = b.am],
             [systems |-> <<System_new(b.query)>>, commands |-> CommandQueue_new]) :
         b \in {Query_new(archetype_manager, FilterBuilder_new, bundle,
                          CHOOSE order \in IterationOrders(Table) : TRUE)}})

C34_FlagOnDeadEntityIsNoOp ==
    fault = "none" =>
        \A e \in issued, c \in ComponentIDs :
            ~Alive(e) => FlagModifiedCommand_execute(World, e, c) = World

\* How many rows of the columns of component c hold the value v in world w.
StoredCount(w, c, v) ==
    Cardinality(
        {p \in UNION {{<<id, i>> :
                          i \in 1 .. Len(w.archetype_manager.archetype_table[id]
                                             .components[c].components)} :
                      id \in {k \in DOMAIN w.archetype_manager.archetype_table :
                                 c \in DOMAIN w.archetype_manager.archetype_table[k].components}} :
            w.archetype_manager.archetype_table[p[1]].components[c].components[p[2]] = v})

\* The stored values of `after` are those of `before` less the disposed ones
\* plus the pushed ones, counted with multiplicity.
Conserved(before, after, disposed, pushed) ==
    \A c \in ComponentIDs, v \in Values :
        StoredCount(after, c, v) + Cardinality(disposed \cap {[comp |-> c, value |-> v]}) =
            StoredCount(before, c, v) + Cardinality(pushed \cap {[comp |-> c, value |-> v]})

\* Every live entity other than x holds in `after` the values it held before,
\* and x holds those of its components in `kept`.
ValuesKept(before, after, x, kept) ==
    \A y \in LiveIn(before), c \in ComponentIDs :
        (y # x \/ c \in kept) =>
            World_get_component(after, y, c) = World_get_component(before, y, c)

\* C35: a stored component value is disposed exactly when it is removed:
\* remove_component disposes the removed component of that entity and nothing
\* else, delete_entity disposes each component of the deleted entity once,
\* and the transfer between archetypes that add_component and
\* remove_component make neither disposes nor duplicates a value.
C35_ValuesDisposedOnce ==
    fault = "none" =>
        \A w \in Crowded :
            \A x \in LiveIn(w) :
                \A mine \in {{[comp |-> c, value |-> World_get_component(w, x, c)] :
                                 c \in ComponentsOf(w, x)}} :
                    /\ \A disposed \in {ArchetypeManager_delete_entity_disposed(
                                            w.archetype_manager, x, w.entity_manager)} :
                       \A after \in {World_delete_entity(w, x)} :
                           /\ disposed = mine
                           /\ Conserved(w, after, disposed, {})
                           /\ ValuesKept(w, after, x, {})
                    /\ \A c \in ComponentsOf(w, x) :
                       \A disposed \in {ArchetypeManager_remove_component_disposed(
                                            w.archetype_manager, x, c, w.entity_manager)} :
                       \A after \in {World_remove_component(w, x, c)} :
                           /\ disposed = {[comp |-> c, value |-> World_get_component(w, x, c)]}
                           /\ Conserved(w, after, disposed, {})
                           /\ ValuesKept(w, after, x, ComponentsOf(w, x) \ {c})
                    /\ \A c \in ComponentIDs \ ComponentsOf(w, x), v \in Values :
                       \A after \in {World_add_component(w, x, c, v)} :
                           /\ Conserved(w, after, {}, {[comp |-> c, value |-> v]})
                           /\ ValuesKept(w, after, x, ComponentsOf(w, x))
                           /\ World_get_component(after, x, c) = v

\* C35 witness: two live entities share an archetype with two columns and
\* hold different values in each, so that disposing the wrong row or
\* duplicating a moved value would show.
C35_Witness ==
    /\ fault = "none"
    /\ \E id \in DOMAIN Table :
           /\ Cardinality(id) = NumComps
           /\ Len(Table[id].entities) = MaxSlots
           /\ \A i \in 1 .. MaxSlots : Alive(Table[id].entities[i])
           /\ \A c \in id : Table[id].components[c].components[1] #
                                Table[id].components[c].components[MaxSlots]

CreatedBy(r) ==
    {r.am.archetype_table[id] : id \in DOMAIN r.am.archetype_table \ DOMAIN Table}

\* C37: in every state the components that have a column in an archetype are
\* the components of its id; an archetype created by extension has the
\* source's columns plus the added one, one created by reduction the source's
\* columns minus the removed one.
C37_ColumnsAreTheComponentSet ==
    /\ \A id \in DOMAIN Table :
           /\ Table[id].id = id
           /\ Archetype_comp_ids(Table[id]) = id
           /\ \A c \in ComponentIDs : Archetype_has_component(Table[id], c) <=>
                                          c \in DOMAIN Table[id].components
    /\ fault = "none" =>
           \A src \in DOMAIN Table :
               /\ \A c \in ComponentIDs \ src :
                      \A r \in {ArchetypeManager_get_extended_archetype(
                                    archetype_manager, src, c)} :
                          \A made \in CreatedBy(r) :
                              /\ made.id = r.id
                              /\ made.id = src \cup {c}
                              /\ Archetype_comp_ids(made) =
                                     Archetype_comp_ids(Table[src]) \cup {c}
                              /\ Archetype_comp_ids(made) = made.id
               /\ \A c \in src :
                      \A r \in {ArchetypeManager_get_reduced_archetype(
                                    archetype_manager, src, c)} :
                          \A made \in CreatedBy(r) :
                              /\ made.id = r.id
                              /\ made.id = src \ {c}
                              /\ Archetype_comp_ids(made) =
                                     Archetype_comp_ids(Table[src]) \ {c}
                              /\ Archetype_comp_ids(made) = made.id

\* C37 witness: the table holds an archetype with every component and lacks
\* one with a single component, which a remove_component would create by
\* reduction, while another archetype was created by extension.
C37_Witness ==
    /\ fault = "none"
    /\ ComponentIDs \in DOMAIN Table
    /\ \E c \in ComponentIDs :
           /\ CreatedBy(ArchetypeManager_get_reduced_archetype(
                            archetype_manager, ComponentIDs, c)) # {}
           /\ Table[ComponentIDs].entities # <<>>
    /\ Cardinality(DOMAIN Table) > 2

\* The worlds the current one becomes when one system's flag_modified of a
\* command entity's component is flushed by an update, and the current one.
Flagged ==
    {World} \cup
        {u.world : u \in
            {World_update(World, pushes) : pushes \in
                UNION {FlagPushes(e, c) : e \in CommandEntities \cap LiveEntities,
                                          c \in CommandComps}}}

\* The archetypes of w that hold every entity of a full store.
Full(w) ==
    {id \in DOMAIN w.archetype_manager.archetype_table :
        /\ Len(w.entity_manager) = MaxSlots
        /\ Len(w.archetype_manager.archetype_table[id].entities) = MaxSlots
        /\ LiveIn(w) = Range(w.archetype_manager.archetype_table[id].entities)}

\* The tracker entry of y's component c in w: its modified tick, or None
\* when the column is not tracked.
ModifiedOf(w, y, c) ==
    IF ColumnOf(w, y, c).tracker.enabled
    THEN <<ColumnOf(w, y, c).tracker.info[get_record(w.entity_manager, y).archetype_row + 1]>>
    ELSE <<>>

\* C38: when an entity x is deleted or transferred out of an archetype, the
\* modified tick of every component of every other entity y is as before, also
\* for the entity swapped into x's row.
C38_TrackerEntryTravelsWithRow ==
    fault = "none" =>
        \A flagged \in {f \in Flagged : f.fault = "none"} :
            \A w \in {flagged} \cup {Joined(flagged, id) : id \in Full(flagged)} :
                \A x \in LiveIn(w) :
                    \A after \in Leaves(w, x) :
                        \A y \in LiveIn(w) \ {x} :
                            \A c \in ComponentsOf(w, y) :
                                ModifiedOf(after, y, c) = ModifiedOf(w, y, c)

\* C38 witness: after an update, a tracked column holds two live entities, and
\* flagging the command entity gives the two rows different modified ticks.
C38_Witness ==
    /\ fault = "none"
    /\ tick > 0
    /\ \E f \in Flagged :
           /\ f.fault = "none"
           /\ \E id \in Full(f), c \in CommandComps :
                  /\ c \in id
                  /\ f.archetype_manager.archetype_table[id].components[c].tracker.enabled
                  /\ Cardinality(Range(f.archetype_manager.archetype_table[id]
                                           .components[c].tracker.info)) > 1

\* The archetype FlagModifiedCommand::execute takes the column from: the one
\* the entity's record names when the command is executed.
FlagModifiedArchetype(w, e) ==
    w.archetype_manager.archetype_table[get_record(w.entity_manager, e).archetype_id]

\* C39: the assertion of get_storage / get_mut_storage holds at the column
\* access of a flushed flag_modified<T>(e) for a live entity e that had T when
\* the command was queued, whether e still has T when the command is
\* executed or a remove_component<T>(e) queued before it has been executed.
C39_ColumnAccessNamesHeldComponent ==
    fault = "none" =>
        \A e \in CommandEntities \cap LiveEntities, c \in CommandComps :
            World_has_component(World, e, c) =>
                \A w \in {World, Command_execute(RemoveComponentCommand(e, c), World)} :
                    Archetype_get_storage_asserted(FlagModifiedArchetype(w, e), c)

====
